---- MODULE Spec2Model ----
(***************************************************************************)
(* The declarative analytics query compiler of the educational reporting   *)
(* framework, in its two implementations:                                  *)
(*   - handlers.AnalyticsHandler   (buildQuery and its helpers)            *)
(*   - handlers.GenericQueryBuilder (buildSQL and its helpers)             *)
(*                                                                         *)
(* Text is modelled as a sequence of tokens (TLA+ strings).  A dotted      *)
(* identifier such as users.role is the token sequence                     *)
(* <<"users", ".", "role">>, so that strings.HasPrefix and                 *)
(* strings.ReplaceAll act on it as they do on the Go string.  A nil error  *)
(* is the empty text; a nil pointer is the empty sequence and a non-nil    *)
(* pointer a sequence of length one.                                       *)
(***************************************************************************)
EXTENDS Integers, Sequences, FiniteSets, TLC

VARIABLES
    handler,      \* which handler serves the request: "analytics", "generic",
                  \* "schema" (introspection), "workers" (concurrent invocations)
                  \* or "seed" (the seed migration manager)
    req,          \* the request (QueryRequest, or the cube request struct)
    results,      \* what each compilation of req returned, oldest first
    written,      \* what has been stored into the package-level maps measureMap
                  \* and dimensionMap since their initialisation
    executed,     \* the query texts handed to the database (db.Raw), oldest first
    response,     \* what the caller of the last handled request received
    workers,      \* the concurrent invocations: each one's request and position
    seed          \* the seed migrations: the rows of the seed_migrations table and
                  \* what the invocations of RunPendingMigrations did and returned

vars == <<handler, req, results, written, executed, response, workers, seed>>

----------------------------------------------------------------------------
(* Bounds of the model *)

MaxMeasures == 2
MaxDims == 2
MaxFilters == 1
MaxTimeDims == 1
MaxOrder == 2
MaxCompiles == 2
MaxWorkers == 2
MaxRuns == 3

----------------------------------------------------------------------------
(* Text helpers *)

Id(t, n) == <<t, ".", n>>

RECURSIVE Concat(_)
Concat(ss) == IF ss = <<>> THEN <<>> ELSE Head(ss) \o Concat(Tail(ss))

RECURSIVE Join(_, _)
Join(ss, sep) ==
    IF ss = <<>> THEN <<>>
    ELSE IF Len(ss) = 1 THEN ss[1]
    ELSE ss[1] \o <<sep>> \o Join(Tail(ss), sep)

HasPrefix(s, p) == Len(s) >= Len(p) /\ SubSeq(s, 1, Len(p)) = p

ReplaceAll(s, old, new) == [i \in 1..Len(s) |-> IF s[i] = old THEN new ELSE s[i]]

Range(s) == {s[i] : i \in 1..Len(s)}

SeqsUpTo(S, n) == UNION {[1..k -> S] : k \in 0..n}

UniqueSeqsUpTo(S, n) ==
    {s \in SeqsUpTo(S, n) : \A i, j \in 1..Len(s) : i # j => s[i] # s[j]}

\* The index of the first TRUE of flags; flags must hold one.
FirstTrue(flags) ==
    CHOOSE i \in 1..Len(flags) : flags[i] /\ \A j \in 1..(i - 1) : ~flags[j]

NoError == <<>>

\* What a compilation returns on failure: the empty string and the error.
Failed(e) ==
    [err |-> e, query |-> <<>>, selects |-> <<>>,
     from |-> [table |-> "", alias |-> ""], joins |-> <<>>,
     conditions |-> <<>>, groups |-> <<>>, orderBy |-> <<>>, limit |-> <<>>]

JoinText(j) == <<j.kind, " ", j.table, " ", j.alias, " ON ", j.on>>

----------------------------------------------------------------------------
(* AnalyticsHandler: the registry *)

measureMapLiteral ==
    {[name |-> Id("quiz_responses", "average_score"),
      sql |-> "AVG(CASE WHEN qr.points_earned IS NOT NULL THEN (qr.points_earned / qq.points) * 100 END)"],
     [name |-> Id("quiz_responses", "completion_rate"),
      sql |-> "COUNT(DISTINCT qr.student_id) * 100.0 / COUNT(DISTINCT e.user_id)"],
     [name |-> Id("quiz_responses", "total_responses"), sql |-> "COUNT(qr.id)"],
     [name |-> Id("sessions", "total_duration"), sql |-> "SUM(s.duration_seconds) / 60.0"],
     [name |-> Id("sessions", "average_duration"), sql |-> "AVG(s.duration_seconds) / 60.0"],
     [name |-> Id("sessions", "count"), sql |-> "COUNT(s.id)"],
     [name |-> Id("events", "count"), sql |-> "COUNT(e.id)"],
     [name |-> Id("users", "active_count"), sql |-> "COUNT(DISTINCT u.id)"],
     [name |-> Id("classrooms", "engagement_score"), sql |-> "AVG(ca.average_engagement_score)"]}

dimensionMapLiteral ==
    {[name |-> Id("users", "role"), sql |-> "u.role"],
     [name |-> Id("classrooms", "subject"), sql |-> "c.subject"],
     [name |-> Id("schools", "name"), sql |-> "sch.name"],
     [name |-> Id("time", "date"), sql |-> "DATE(s.start_time)"],
     [name |-> Id("time", "hour"), sql |-> "EXTRACT(HOUR FROM s.start_time)"],
     [name |-> Id("time", "day_of_week"), sql |-> "EXTRACT(DOW FROM s.start_time)"],
     [name |-> Id("applications", "type"), sql |-> "s.application"],
     [name |-> Id("quiz", "difficulty"), sql |-> "q.status"]}

\* Nothing has been stored into either map.
Unwritten == [measureMap |-> {}, dimensionMap |-> {}]

\* A map as it stands: its literal, overridden by the entries stored since.
Stored(literal, entries) ==
    IF entries = {} THEN literal
    ELSE {d \in literal : \A e \in entries : e.name # d.name} \cup entries

measureMap == Stored(measureMapLiteral, written.measureMap)

dimensionMap == Stored(dimensionMapLiteral, written.dimensionMap)

\* m[key] with the comma-ok idiom: whether the key is present, and its entry.
Exists(m, key) == \E d \in m : d.name = key
Lookup(m, key) == CHOOSE d \in m : d.name = key

\* fmt's %d over the integers the model's requests carry.
Itoa(n) ==
    CASE n = 0 -> "0" [] n = 1 -> "1" [] n = 5 -> "5" [] n = 10 -> "10"
      [] n = -1 -> "-1" [] OTHER -> "n"

\* fmt's %v of a decoded JSON value: a scalar prints as itself, a []interface{}
\* as its elements between brackets, separated by spaces.
FormatValue(v) ==
    IF v.array THEN <<"[">> \o Join([i \in 1..Len(v.items) |-> <<v.items[i]>>], " ") \o <<"]">>
    ELSE <<v.items[1]>>

----------------------------------------------------------------------------
(* AnalyticsHandler: the compiler *)

AH_buildTimeDimension(td) ==
    IF ~Exists(dimensionMap, td.dimension)
    THEN [expr |-> <<>>, err |-> <<"unknown time dimension: ">> \o td.dimension]
    ELSE LET baseDimension == Lookup(dimensionMap, td.dimension).sql IN
         CASE td.granularity = "hour" ->
                [expr |-> <<"DATE_TRUNC('hour', ", baseDimension, ")">>, err |-> NoError]
           [] td.granularity = "day" ->
                [expr |-> <<"DATE_TRUNC('day', ", baseDimension, ")">>, err |-> NoError]
           [] td.granularity = "week" ->
                [expr |-> <<"DATE_TRUNC('week', ", baseDimension, ")">>, err |-> NoError]
           [] td.granularity = "month" ->
                [expr |-> <<"DATE_TRUNC('month', ", baseDimension, ")">>, err |-> NoError]
           [] td.granularity = "quarter" ->
                [expr |-> <<"DATE_TRUNC('quarter', ", baseDimension, ")">>, err |-> NoError]
           [] td.granularity = "year" ->
                [expr |-> <<"DATE_TRUNC('year', ", baseDimension, ")">>, err |-> NoError]
           [] OTHER ->
                [expr |-> <<>>, err |-> <<"unsupported time granularity: ", td.granularity>>]

\* The needs... flags buildFromClause derives from the identifiers' prefixes.
AH_Needs(r) ==
    LET anyM(p) == \E i \in 1..Len(r.measures) : HasPrefix(r.measures[i], p)
        anyD(p) == \E i \in 1..Len(r.dimensions) : HasPrefix(r.dimensions[i], p)
    IN  [QuizResponses |-> anyM(<<"quiz_responses", ".">>),
         QuizQuestions |-> anyM(<<"quiz_responses", ".">>),
         Quizzes |-> FALSE,
         Sessions |-> anyM(<<"sessions", ".">>) \/ anyD(<<"time", ".">>)
                        \/ anyD(<<"applications", ".">>),
         Events |-> anyM(<<"events", ".">>),
         Users |-> anyM(<<"users", ".">>) \/ anyD(<<"users", ".">>),
         Classrooms |-> anyM(<<"classrooms", ".">>) \/ anyD(<<"classrooms", ".">>),
         Schools |-> anyD(<<"schools", ".">>),
         ClassroomAnalytics |-> anyM(<<"classrooms", ".">>)]

AH_buildFromClause(r) ==
    LET needs == AH_Needs(r)
        needsQuizResponses == needs.QuizResponses
        needsQuizQuestions == needs.QuizQuestions
        needsQuizzes == needs.Quizzes
        needsSessions == needs.Sessions
        needsEvents == needs.Events
        needsUsers == needs.Users
        needsClassrooms == needs.Classrooms
        needsSchools == needs.Schools
        needsClassroomAnalytics == needs.ClassroomAnalytics
        J(c, k, t, a, on) == IF c THEN <<[kind |-> k, table |-> t, alias |-> a, on |-> on]>>
                             ELSE <<>>
    IN  IF needsSessions THEN
            [table |-> "sessions", alias |-> "s", joins |->
                J(needsUsers, "LEFT JOIN", "users", "u", "s.user_id = u.id")
             \o J(needsClassrooms, "LEFT JOIN", "classrooms", "c", "s.classroom_id = c.id")
             \o J(needsSchools, "LEFT JOIN", "schools", "sch", "c.school_id = sch.id")
             \o J(needsEvents, "LEFT JOIN", "events", "e", "s.id = e.session_id")]
        ELSE IF needsQuizResponses THEN
            [table |-> "quiz_responses", alias |-> "qr", joins |->
                J(needsQuizQuestions, "JOIN", "quiz_questions", "qq", "qr.question_id = qq.id")
             \o J(needsQuizzes, "JOIN", "quizzes", "q", "qr.quiz_id = q.id")
             \o J(needsUsers, "LEFT JOIN", "users", "u", "qr.student_id = u.id")
             \o J(needsClassrooms, "LEFT JOIN", "classrooms", "c", "q.classroom_id = c.id")]
        ELSE IF needsEvents THEN
            [table |-> "events", alias |-> "e", joins |->
                J(needsUsers, "LEFT JOIN", "users", "u", "e.user_id = u.id")
             \o J(needsClassrooms, "LEFT JOIN", "classrooms", "c", "e.classroom_id = c.id")]
        ELSE IF needsClassroomAnalytics THEN
            [table |-> "classroom_analytics", alias |-> "ca", joins |->
                J(needsClassrooms, "JOIN", "classrooms", "c", "ca.classroom_id = c.id")]
        ELSE
            [table |-> "users", alias |-> "u", joins |->
                J(needsClassrooms, "LEFT JOIN", "enrollments", "en", "u.id = en.user_id")
             \o J(needsClassrooms, "LEFT JOIN", "classrooms", "c", "en.classroom_id = c.id")]

AH_buildFilterCondition(filter) ==
    IF ~Exists(dimensionMap, filter.dimension)
    THEN [cond |-> <<>>, err |-> <<"unknown filter dimension: ">> \o filter.dimension]
    ELSE LET dimension == Lookup(dimensionMap, filter.dimension).sql
             op == filter.operator
             cmp(sym) == [cond |-> <<dimension, sym>> \o FormatValue(filter.value) \o <<"'">>,
                          err |-> NoError]
         IN  CASE op \in {"eq", "="} -> cmp(" = '")
               [] op \in {"ne", "!="} -> cmp(" != '")
               [] op \in {"gt", ">"} -> cmp(" > '")
               [] op \in {"gte", ">="} -> cmp(" >= '")
               [] op \in {"lt", "<"} -> cmp(" < '")
               [] op \in {"lte", "<="} -> cmp(" <= '")
               [] op = "in" ->
                    IF filter.value.array
                    THEN [cond |-> <<dimension, " IN (">>
                                   \o Join([i \in 1..Len(filter.value.items) |->
                                              <<"'", filter.value.items[i], "'">>], ", ")
                                   \o <<")">>,
                          err |-> NoError]
                    ELSE [cond |-> <<>>, err |-> <<"'in' operator requires array value">>]
               [] op = "contains" ->
                    [cond |-> <<dimension, " ILIKE '%">> \o FormatValue(filter.value) \o <<"%'">>,
                     err |-> NoError]
               [] OTHER -> [cond |-> <<>>, err |-> <<"unsupported operator: ", op>>]

AH_buildWhereClause(filters) ==
    LET built == [i \in 1..Len(filters) |-> AH_buildFilterCondition(filters[i])]
        failed(b) == b.err # NoError

    IN  IF \E i \in 1..Len(built) : failed(built[i])
        THEN [conditions |-> <<>>, err |-> built[FirstTrue([i \in 1..Len(built) |-> failed(built[i])])].err]
        ELSE [conditions |-> [i \in 1..Len(built) |-> built[i].cond], err |-> NoError]

AH_buildGroupByClause(dimensions, timeDimension) ==
    LET known(d) == Exists(dimensionMap, d)
        sqlOf(d) == <<Lookup(dimensionMap, d).sql>>
    IN  Concat([i \in 1..Len(dimensions) |-> IF known(dimensions[i]) THEN <<sqlOf(dimensions[i])>> ELSE <<>>])
        \o (IF timeDimension # <<>> THEN <<AH_buildTimeDimension(timeDimension[1]).expr>>
            ELSE <<>>)

AH_SelectText(sel) == sel.expr \o <<" as \"">> \o sel.alias \o <<"\"">>

\* The three loops that open buildQuery: the select list, or the first error.
AH_SelectClause(r) ==
    LET unknownM(m) == ~Exists(measureMap, m)
        unknownD(d) == ~Exists(dimensionMap, d)
        td == r.timeDimension
        time == IF td # <<>> THEN AH_buildTimeDimension(td[1])
                ELSE [expr |-> <<>>, err |-> NoError]
    IN  IF \E i \in 1..Len(r.measures) : unknownM(r.measures[i])
        THEN [selects |-> <<>>,
              err |-> <<"unknown measure: ">> \o r.measures[FirstTrue([i \in 1..Len(r.measures) |-> unknownM(r.measures[i])])]]
        ELSE IF \E i \in 1..Len(r.dimensions) : unknownD(r.dimensions[i])
        THEN [selects |-> <<>>,
              err |-> <<"unknown dimension: ">> \o r.dimensions[FirstTrue([i \in 1..Len(r.dimensions) |-> unknownD(r.dimensions[i])])]]
        ELSE IF time.err # NoError
        THEN [selects |-> <<>>, err |-> time.err]
        ELSE [selects |->
                [i \in 1..Len(r.measures) |->
                    [expr |-> <<Lookup(measureMap, r.measures[i]).sql>>, alias |-> r.measures[i]]]
             \o [i \in 1..Len(r.dimensions) |->
                    [expr |-> <<Lookup(dimensionMap, r.dimensions[i]).sql>>,
                     alias |-> r.dimensions[i]]]
             \o (IF td # <<>> THEN <<[expr |-> time.expr, alias |-> <<"time">>]>> ELSE <<>>),
              err |-> NoError]

\* The limit clause of buildQuery as it would be if it rendered the offset
\* whether or not there is a limit.
AH_LimitClause_OffsetAlone(r) ==
    (IF r.limit # <<>> THEN <<"LIMIT ", Itoa(r.limit[1])>> ELSE <<>>)
    \o (IF r.offset # <<>> THEN <<" OFFSET ", Itoa(r.offset[1])>> ELSE <<>>)

\* The limit clause of buildQuery: LIMIT when req.Limit is not nil, with OFFSET
\* when req.Offset is not nil either.
AH_LimitClause(r) ==
    IF r.limit # <<>>
    THEN <<"LIMIT ", Itoa(r.limit[1])>>
         \o (IF r.offset # <<>> THEN <<" OFFSET ", Itoa(r.offset[1])>> ELSE <<>>)
    ELSE <<>>

\* The rest of buildQuery, from selectClause := strings.Join(selects, ", ") on.
AH_Clauses(r, selects) ==
    LET td == r.timeDimension
        selectClause == Join([i \in 1..Len(selects) |-> AH_SelectText(selects[i])], ", ")
        from == AH_buildFromClause(r)
        fromClause == <<from.table, " ", from.alias>>
                      \o Concat([i \in 1..Len(from.joins) |-> <<" ">> \o JoinText(from.joins[i])])
        where == AH_buildWhereClause(r.filters)
        whereClause == Join(where.conditions, " AND ")
        groups == AH_buildGroupByClause(r.dimensions, td)
        groupByClause == Join(groups, ", ")
        orderByClause == IF td # <<>> THEN <<"ORDER BY time ASC">> ELSE <<>>
        limitClause == AH_LimitClause(r)
    IN  IF where.err # NoError
        THEN Failed(where.err)
        ELSE [err |-> NoError,
              query |-> <<"SELECT ">> \o selectClause \o <<" FROM ">> \o fromClause
                   \o (IF whereClause # <<>> THEN <<" WHERE ">> \o whereClause ELSE <<>>)
                   \o (IF groupByClause # <<>> THEN <<" GROUP BY ">> \o groupByClause ELSE <<>>)
                   \o (IF orderByClause # <<>> THEN <<" ">> \o orderByClause ELSE <<>>)
                   \o (IF limitClause # <<>> THEN <<" ">> \o limitClause ELSE <<>>),
              selects |-> selects,
              from |-> [table |-> from.table, alias |-> from.alias],
              joins |-> from.joins,
              conditions |-> where.conditions,
              groups |-> groups,
              orderBy |-> orderByClause,
              limit |-> limitClause]

AH_buildQuery(r) ==
    LET sel == AH_SelectClause(r)
    IN  IF sel.err # NoError THEN Failed(sel.err) ELSE AH_Clauses(r, sel.selects)

----------------------------------------------------------------------------
(* GenericQueryBuilder: the registry *)

GetSchema ==
    [Measures |-> {
     [name |-> Id("events", "count"), type |-> "count", sql |-> "COUNT(*)",
      table |-> "events", description |-> "Total number of events"],
     [name |-> Id("events", "unique_users"), type |-> "count", sql |-> "COUNT(DISTINCT user_id)",
      table |-> "events", description |-> "Number of unique users generating events"],
     [name |-> Id("sessions", "count"), type |-> "count", sql |-> "COUNT(*)",
      table |-> "sessions", description |-> "Total number of sessions"],
     [name |-> Id("sessions", "avg_duration"), type |-> "avg", sql |-> "AVG(duration_seconds / 60.0)",
      table |-> "sessions", description |-> "Average session duration in minutes"],
     [name |-> Id("sessions", "total_duration"), type |-> "sum", sql |-> "SUM(duration_seconds / 60.0)",
      table |-> "sessions", description |-> "Total session duration in minutes"],
     [name |-> Id("users", "count"), type |-> "count", sql |-> "COUNT(*)",
      table |-> "users", description |-> "Total number of users"],
     [name |-> Id("users", "active_count"), type |-> "count", sql |-> "COUNT(*)",
      table |-> "users", description |-> "Number of active users (with recent activity)"],
     [name |-> Id("quizzes", "count"), type |-> "count", sql |-> "COUNT(*)",
      table |-> "quizzes", description |-> "Total number of quizzes"],
     [name |-> Id("quiz_sessions", "avg_score"), type |-> "avg", sql |-> "AVG(percentage_score)",
      table |-> "quiz_sessions", description |-> "Average quiz score percentage"],
     [name |-> Id("quiz_sessions", "completion_rate"), type |-> "avg", sql |-> "AVG(CASE WHEN is_completed THEN 1.0 ELSE 0.0 END) * 100",
      table |-> "quiz_sessions", description |-> "Quiz completion rate percentage"],
     [name |-> Id("content", "count"), type |-> "count", sql |-> "COUNT(*)",
      table |-> "content", description |-> "Total number of content items"],
     [name |-> Id("content", "avg_file_size"), type |-> "avg", sql |-> "AVG(file_size_bytes / 1024.0 / 1024.0)",
      table |-> "content", description |-> "Average content file size in MB"]},
     Dimensions |-> {
     [name |-> Id("time", "date"), type |-> "time", sql |-> "DATE(created_at)",
      table |-> "events", description |-> "Date of the event"],
     [name |-> Id("time", "hour"), type |-> "time", sql |-> "DATE_TRUNC('hour', created_at)",
      table |-> "events", description |-> "Hour of the event"],
     [name |-> Id("time", "week"), type |-> "time", sql |-> "DATE_TRUNC('week', created_at)",
      table |-> "events", description |-> "Week of the event"],
     [name |-> Id("time", "month"), type |-> "time", sql |-> "DATE_TRUNC('month', created_at)",
      table |-> "events", description |-> "Month of the event"],
     [name |-> Id("users", "role"), type |-> "string", sql |-> "role",
      table |-> "users", description |-> "User role (teacher, student, admin)"],
     [name |-> Id("users", "school_id"), type |-> "string", sql |-> "school_id::text",
      table |-> "users", description |-> "School identifier"],
     [name |-> Id("events", "type"), type |-> "string", sql |-> "event_type",
      table |-> "events", description |-> "Type of event"],
     [name |-> Id("events", "application"), type |-> "string", sql |-> "application",
      table |-> "events", description |-> "Application source (whiteboard, notebook)"],
     [name |-> Id("sessions", "application"), type |-> "string", sql |-> "application",
      table |-> "sessions", description |-> "Session application type"],
     [name |-> Id("content", "type"), type |-> "string", sql |-> "content_type",
      table |-> "content", description |-> "Type of content"],
     [name |-> Id("schools", "name"), type |-> "string", sql |-> "s.name",
      table |-> "schools", description |-> "School name"],
     [name |-> Id("classrooms", "name"), type |-> "string", sql |-> "c.name",
      table |-> "classrooms", description |-> "Classroom name"],
     [name |-> Id("classrooms", "grade_level"), type |-> "number", sql |-> "c.grade_level",
      table |-> "classrooms", description |-> "Classroom grade level"],
     [name |-> Id("classrooms", "subject"), type |-> "string", sql |-> "c.subject",
      table |-> "classrooms", description |-> "Classroom subject"]}]

----------------------------------------------------------------------------
(* GenericQueryBuilder: the compiler *)

\* A Go map[string]bool whose entries are all true: keys holds its keys in the
\* order they were inserted, and start is where a range over the map would
\* begin (the runtime draws it afresh for every range and wraps around).
MapHas(tables, key) == key \in Range(tables.keys)

MapInsert(keys, key) == IF key \in Range(keys) THEN keys ELSE Append(keys, key)

RECURSIVE InsertTables(_, _, _)
InsertTables(keys, names, defs) ==
    IF names = <<>> THEN keys
    ELSE InsertTables(IF Exists(defs, Head(names))
                      THEN MapInsert(keys, Lookup(defs, Head(names)).table)
                      ELSE keys,
                      Tail(names), defs)

determineTables(measures, dimensions, schema) ==
    InsertTables(InsertTables(<<>>, measures, schema.Measures), dimensions, schema.Dimensions)

priority == <<"events", "sessions", "users", "quizzes", "content", "schools", "classrooms">>

\* determinePrimaryTable as it would be if it scanned the priority list from its end.
determinePrimaryTable_LastMatch(tables) ==
    IF \E i \in 1..Len(priority) : MapHas(tables, priority[i])
    THEN priority[CHOOSE i \in 1..Len(priority) :
                    /\ MapHas(tables, priority[i])
                    /\ \A j \in (i + 1)..Len(priority) : ~MapHas(tables, priority[j])]
    ELSE "events"

determinePrimaryTable(tables) ==
    IF \E i \in 1..Len(priority) : MapHas(tables, priority[i])
    THEN priority[CHOOSE i \in 1..Len(priority) :
                    /\ MapHas(tables, priority[i])
                    /\ \A j \in 1..(i - 1) : ~MapHas(tables, priority[j])]
    ELSE "events"

aliases ==
    {<<"events", "e">>, <<"sessions", "s">>, <<"users", "u">>, <<"quizzes", "q">>,
     <<"content", "c">>, <<"schools", "sch">>, <<"classrooms", "cl">>}

\* The switch of buildFromClause: the joins onto primaryTable, present being the
\* tables t with tables[t].
GQB_Joins(primaryTable, present) ==
    LET has(t) == t \in present IN
    LET J(c, t, a, on) == IF c THEN <<[kind |-> "LEFT JOIN", table |-> t, alias |-> a, on |-> on]>>
                          ELSE <<>>
    IN  CASE primaryTable = "events" ->
                J(has("users"), "users", "u", "e.user_id = u.id")
             \o J(has("sessions"), "sessions", "s", "e.session_id = s.id")
             \o J(has("classrooms"), "classrooms", "cl", "e.classroom_id = cl.id")
             \o J(has("schools"), "schools", "sch", "e.school_id = sch.id")
          [] primaryTable = "sessions" ->
                J(has("users"), "users", "u", "s.user_id = u.id")
             \o J(has("classrooms"), "classrooms", "cl", "s.classroom_id = cl.id")
             \o (IF has("schools") /\ ~has("classrooms")
                 THEN J(TRUE, "classrooms", "cl", "s.classroom_id = cl.id")
                   \o J(TRUE, "schools", "sch", "cl.school_id = sch.id")
                 ELSE J(has("schools"), "schools", "sch", "cl.school_id = sch.id"))
          [] primaryTable = "users" ->
                J(has("schools"), "schools", "sch", "u.school_id = sch.id")
             \o J(has("classrooms"), "user_classrooms", "uc", "u.id = uc.user_id")
             \o J(has("classrooms"), "classrooms", "cl", "uc.classroom_id = cl.id")
          [] OTHER -> <<>>

GQB_Alias(primaryTable) ==
    IF \E a \in aliases : a[1] = primaryTable
    THEN (CHOOSE a \in aliases : a[1] = primaryTable)[2]
    ELSE ""

\* The keys in the order a range beginning at tables.start visits them.
MapRange(tables) ==
    LET n == Len(tables.keys)
    IN  IF n = 0 THEN <<>>
        ELSE SubSeq(tables.keys, tables.start, n) \o SubSeq(tables.keys, 1, tables.start - 1)

\* buildFromClause as it would be if it emitted the joins while ranging over the map.
GQB_buildFromClause_Ranging(primaryTable, tables) ==
    LET order == MapRange(tables)
    IN  [table |-> primaryTable, alias |-> GQB_Alias(primaryTable),
         joins |-> Concat([i \in 1..Len(order) |->
                             GQB_Joins(primaryTable, {order[i]})])]

GQB_buildFromClause(primaryTable, tables) ==
    [table |-> primaryTable, alias |-> GQB_Alias(primaryTable),
     joins |-> GQB_Joins(primaryTable, {t \in Range(tables.keys) : MapHas(tables, t)})]

GQB_buildFilterCondition(sql, operator, values) ==
    LET one(sym) == IF Len(values) = 1 THEN <<sql, sym, values[1], "'">> ELSE <<>> IN
    CASE operator = "equals" -> one(" = '")
      [] operator = "in" ->
            IF Len(values) > 0
            THEN <<sql, " IN (">>
                 \o Join([i \in 1..Len(values) |-> <<"'", values[i], "'">>], ", ")
                 \o <<")">>
            ELSE <<>>
      [] operator = "gt" -> one(" > '")
      [] operator = "gte" -> one(" >= '")
      [] operator = "lt" -> one(" < '")
      [] operator = "lte" -> one(" <= '")
      [] operator = "contains" ->
            IF Len(values) = 1 THEN <<sql, " ILIKE '%", values[1], "%'">> ELSE <<>>
      [] OTHER -> <<>>

\* buildWhereClause as it would be if it seeded its conditions with an
\* always-true one.
GQB_buildWhereClause_Seeded(filters, timeDimensions, schema) ==
    LET knownF(f) == Exists(schema.Dimensions, f.member)
        condOf(f) == GQB_buildFilterCondition(Lookup(schema.Dimensions, f.member).sql,
                                              f.operator, f.values)
        nonEmpty(c) == c # <<>>
        ranged(t) == Exists(schema.Dimensions, t.dimension) /\ Len(t.dateRange) = 2
        between(t) == <<Lookup(schema.Dimensions, t.dimension).sql, " BETWEEN '",
                        t.dateRange[1], "' AND '", t.dateRange[2], "'">>
    IN  <<<<"1=1">>>>
        \o SelectSeq(Concat([i \in 1..Len(filters) |-> IF knownF(filters[i]) THEN <<condOf(filters[i])>> ELSE <<>>]), nonEmpty)
        \o Concat([i \in 1..Len(timeDimensions) |-> IF ranged(timeDimensions[i]) THEN <<between(timeDimensions[i])>> ELSE <<>>])

GQB_buildWhereClause(filters, timeDimensions, schema) ==
    LET knownF(f) == Exists(schema.Dimensions, f.member)
        condOf(f) == GQB_buildFilterCondition(Lookup(schema.Dimensions, f.member).sql,
                                              f.operator, f.values)
        nonEmpty(c) == c # <<>>
        ranged(t) == Exists(schema.Dimensions, t.dimension) /\ Len(t.dateRange) = 2
        between(t) == <<Lookup(schema.Dimensions, t.dimension).sql, " BETWEEN '",
                        t.dateRange[1], "' AND '", t.dateRange[2], "'">>
    IN  SelectSeq(Concat([i \in 1..Len(filters) |-> IF knownF(filters[i]) THEN <<condOf(filters[i])>> ELSE <<>>]), nonEmpty)
        \o Concat([i \in 1..Len(timeDimensions) |-> IF ranged(timeDimensions[i]) THEN <<between(timeDimensions[i])>> ELSE <<>>])

\* The granularity switch that buildSQL and buildGroupByClause both carry.
GQB_TimeSQL(granularity, sql) ==
    CASE granularity = "day" -> <<"DATE(", sql, ")">>
      [] granularity = "week" -> <<"DATE_TRUNC('week', ", sql, ")">>
      [] granularity = "month" -> <<"DATE_TRUNC('month', ", sql, ")">>
      [] granularity = "hour" -> <<"DATE_TRUNC('hour', ", sql, ")">>
      [] OTHER -> <<sql>>

\* buildGroupByClause as it would be if it grouped by the registry expression
\* of a time dimension without the granularity switch.
GQB_buildGroupByClause_Untruncated(dimensions, timeDimensions, schema) ==
    LET knownD(d) == Exists(schema.Dimensions, d)
        sqlOf(d) == <<Lookup(schema.Dimensions, d).sql>>
        knownT(t) == Exists(schema.Dimensions, t.dimension)
        timeOf(t) == <<Lookup(schema.Dimensions, t.dimension).sql>>
    IN  Concat([i \in 1..Len(dimensions) |-> IF knownD(dimensions[i]) THEN <<sqlOf(dimensions[i])>> ELSE <<>>]) \o Concat([i \in 1..Len(timeDimensions) |-> IF knownT(timeDimensions[i]) THEN <<timeOf(timeDimensions[i])>> ELSE <<>>])

GQB_buildGroupByClause(dimensions, timeDimensions, schema) ==
    LET knownD(d) == Exists(schema.Dimensions, d)
        sqlOf(d) == <<Lookup(schema.Dimensions, d).sql>>
        knownT(t) == Exists(schema.Dimensions, t.dimension)
        timeOf(t) == GQB_TimeSQL(t.granularity, Lookup(schema.Dimensions, t.dimension).sql)
    IN  Concat([i \in 1..Len(dimensions) |-> IF knownD(dimensions[i]) THEN <<sqlOf(dimensions[i])>> ELSE <<>>]) \o Concat([i \in 1..Len(timeDimensions) |-> IF knownT(timeDimensions[i]) THEN <<timeOf(timeDimensions[i])>> ELSE <<>>])

\* strings.ToUpper over the direction words the model's requests carry.
ToUpper(s) ==
    [i \in 1..Len(s) |->
        CASE s[i] = "asc" -> "ASC" [] s[i] = "desc" -> "DESC" [] s[i] = "Desc" -> "DESC"
          [] s[i] = "up" -> "UP" [] OTHER -> s[i]]

GQB_buildOrderByClause(order) ==
    LET valid(item) == Len(item) >= 2 /\ ToUpper(item[2]) \in {<<"ASC">>, <<"DESC">>}
        clause(item) == ReplaceAll(item[1], ".", "_") \o <<" ">> \o ToUpper(item[2])
    IN  Join(Concat([i \in 1..Len(order) |-> IF valid(order[i]) THEN <<clause(order[i])>> ELSE <<>>]), ", ")

GQB_SelectText(sel) == sel.expr \o <<" AS ">> \o sel.alias

\* The dimensions buildSQL would pass to buildGroupByClause if it grouped by
\* the ordered members too.
GQB_GroupByDimensions_Ordered(r) ==
    r.dimensions \o [i \in 1..Len(r.order) |-> r.order[i][1]]

\* The dimensions buildSQL passes to buildGroupByClause: req.Dimensions.
GQB_GroupByDimensions(r) == r.dimensions

GQB_buildSQL(r, schema, start) ==
    LET tables == [keys |-> determineTables(r.measures, r.dimensions, schema), start |-> start]
        primaryTable == determinePrimaryTable(tables)
        knownM(m) == Exists(schema.Measures, m)
        knownD(d) == Exists(schema.Dimensions, d)
        knownT(t) == Exists(schema.Dimensions, t.dimension)
        selM(m) == [expr |-> <<Lookup(schema.Measures, m).sql>>,
                    alias |-> ReplaceAll(m, ".", "_")]
        selD(d) == [expr |-> <<Lookup(schema.Dimensions, d).sql>>,
                    alias |-> ReplaceAll(d, ".", "_")]
        selT(t) == [expr |-> GQB_TimeSQL(t.granularity, Lookup(schema.Dimensions, t.dimension).sql),
                    alias |-> ReplaceAll(t.dimension, ".", "_") \o <<"_", t.granularity>>]
        selectClauses == Concat([i \in 1..Len(r.measures) |-> IF knownM(r.measures[i]) THEN <<selM(r.measures[i])>> ELSE <<>>])
                         \o Concat([i \in 1..Len(r.dimensions) |-> IF knownD(r.dimensions[i]) THEN <<selD(r.dimensions[i])>> ELSE <<>>])
                         \o Concat([i \in 1..Len(r.timeDimensions) |-> IF knownT(r.timeDimensions[i]) THEN <<selT(r.timeDimensions[i])>> ELSE <<>>])
    IN  IF Len(selectClauses) = 0
        THEN Failed(<<"no valid measures or dimensions specified">>)
        ELSE
        LET from == GQB_buildFromClause(primaryTable, tables)
            fromClause == (IF from.alias # "" THEN <<from.table, " ", from.alias>>
                           ELSE <<from.table>>)
                          \o (IF Len(from.joins) > 0
                              THEN <<" ">> \o Join([i \in 1..Len(from.joins) |->
                                                      JoinText(from.joins[i])], " ")
                              ELSE <<>>)
            conditions == GQB_buildWhereClause(r.filters, r.timeDimensions, schema)
            whereClause == Join(conditions, " AND ")
            groups == GQB_buildGroupByClause(GQB_GroupByDimensions(r), r.timeDimensions, schema)
            groupByClause == Join(groups, ", ")
            orderByClause == GQB_buildOrderByClause(r.order)
            limitClause == IF r.limit > 0 THEN <<"LIMIT ", Itoa(r.limit)>> ELSE <<>>
        IN  [err |-> NoError,
             query |-> <<"SELECT ">>
                  \o Join([i \in 1..Len(selectClauses) |-> GQB_SelectText(selectClauses[i])], ", ")
                  \o <<" FROM ">> \o fromClause
                  \o (IF whereClause # <<>> THEN <<" WHERE ">> \o whereClause ELSE <<>>)
                  \o (IF groupByClause # <<>> THEN <<" GROUP BY ">> \o groupByClause ELSE <<>>)
                  \o (IF orderByClause # <<>> THEN <<" ORDER BY ">> \o orderByClause ELSE <<>>)
                  \o (IF limitClause # <<>> THEN <<" ">> \o limitClause ELSE <<>>),
             selects |-> selectClauses,
             from |-> [table |-> from.table, alias |-> from.alias],
             joins |-> from.joins,
             conditions |-> conditions,
             groups |-> groups,
             orderBy |-> orderByClause,
             limit |-> limitClause]

----------------------------------------------------------------------------
(* The requests the model compiles *)

Values == {"student", "teacher"}
Dates == {"2024-01-01", "2024-01-31"}
Granularities == {"hour", "day", "week", "month", "quarter", "year", "minute"}
Operators == {"eq", "ne", "gt", "gte", "lt", "lte", "in", "contains", "equals", "=", "like"}

\* Identifiers no registry holds.
BogusMeasure == Id("bogus", "metric")
BogusDimension == Id("bogus", "dim")

AH_MeasurePool ==
    {Id("sessions", "count"), Id("events", "count"),
     Id("quiz_responses", "total_responses"), Id("classrooms", "engagement_score"),
     BogusMeasure}

AH_DimensionPool ==
    {Id("users", "role"), Id("classrooms", "subject"), Id("schools", "name"),
     Id("time", "date"), BogusDimension}

\* A decoded JSON filter value: a scalar, or an array of scalars.
AH_FilterValues ==
    {[array |-> FALSE, items |-> <<"student">>],
     [array |-> TRUE, items |-> <<>>],
          [array |-> TRUE, items |-> <<"student">>],
          [array |-> TRUE, items |-> <<"student", "teacher">>]}

AH_FilterPool ==
    [dimension : {Id("users", "role")}, operator : Operators, value : AH_FilterValues]
    \cup {[dimension |-> BogusDimension, operator |-> "eq",
           value |-> [array |-> FALSE, items |-> <<"student">>]]}

AH_TimePool ==
    [dimension : {Id("time", "date")}, granularity : Granularities]
    \cup {[dimension |-> Id("users", "role"), granularity |-> "day"],
          [dimension |-> BogusDimension, granularity |-> "day"]}

\* The body of a request as it arrives: the empty measures list is the JSON [],
\* which the binding of ExecuteQuery accepts (its "required" rejects only a
\* missing list); a time dimension may come with a dateRange key.
AH_Request(ms, ds, fs, ts, ls, os) ==
    [measures : ms, dimensions : ds, filters : fs, timeDimension : ts, limit : ls, offset : os]

\* Requests that vary the selection, the filters, the time dimension and the paging.
AH_Requests ==
    AH_Request(UniqueSeqsUpTo(AH_MeasurePool, MaxMeasures),
               UniqueSeqsUpTo(AH_DimensionPool, MaxDims), {<<>>}, {<<>>}, {<<>>}, {<<>>})
    \cup
    AH_Request({<<Id("sessions", "count")>>}, {<<>>, <<Id("users", "role")>>},
               SeqsUpTo(AH_FilterPool, MaxFilters), {<<>>}, {<<>>}, {<<>>})
    \cup
    AH_Request({<<>>, <<Id("sessions", "count")>>}, {<<>>},
               {<<>>, <<[dimension |-> BogusDimension, operator |-> "eq",
                         value |-> [array |-> FALSE, items |-> <<"student">>]]>>},
               {<<>>} \cup {<<t>> : t \in AH_TimePool}, {<<>>}, {<<>>})
    \cup
    AH_Request({<<Id("sessions", "count")>>}, {<<>>}, {<<>>},
               {<<>>, <<[dimension |-> Id("time", "date"), granularity |-> "day"]>>},
               {<<>>, <<0>>, <<5>>}, {<<>>, <<0>>, <<10>>})
    \cup
    AH_Request({<<Id("sessions", "count")>>}, {<<Id("users", "role")>>},
               {<<>>, <<[dimension |-> Id("users", "role"), operator |-> "eq",
                         value |-> [array |-> FALSE, items |-> <<"student">>]]>>},
               {<<[dimension |-> Id("time", "date"), granularity |-> "day"]>>,
                <<[dimension |-> Id("time", "date"), granularity |-> "day",
                   dateRange |-> <<"2024-01-01", "2024-01-31">>]>>},
               {<<>>}, {<<>>})

GQB_MeasurePool ==
    {Id("events", "count"), Id("sessions", "count"),
     Id("quizzes", "count"), Id("quiz_sessions", "avg_score"),
     BogusMeasure}

GQB_DimensionPool ==
    {Id("users", "role"), Id("classrooms", "subject"), Id("schools", "name"),
     Id("content", "type"), BogusDimension}

GQB_FilterPool ==
    [member : {Id("users", "role")}, operator : Operators,
     values : {<<>>, <<"student">>, <<"student", "teacher">>}]
    \cup {[member |-> BogusDimension, operator |-> "equals", values |-> <<"student">>]}

GQB_TimePool ==
    [dimension : {Id("time", "date")}, granularity : Granularities,
     dateRange : {<<>>, <<"2024-01-01", "2024-01-31">>}]
    \cup [dimension : {Id("users", "role"), BogusDimension}, granularity : {"day"},
          dateRange : {<<>>, <<"2024-01-01", "2024-01-31">>}]

\* An order item is a []string: the member, then the direction.
GQB_OrderPool ==
    {<<Id("users", "role"), <<d>>>> : d \in {"asc", "DESC", "up"}}
    \cup {<<Id("events", "count"), <<"desc">>>>, <<BogusDimension, <<"asc">>>>,
          <<Id("users", "role")>>}

GQB_Request(ms, ds, ts, fs, os, ls) ==
    [measures : ms, dimensions : ds, timeDimensions : ts, filters : fs, order : os, limit : ls]

GQB_Requests ==
    GQB_Request(UniqueSeqsUpTo(GQB_MeasurePool, MaxMeasures),
                UniqueSeqsUpTo(GQB_DimensionPool, MaxDims), {<<>>}, {<<>>}, {<<>>}, {0})
    \cup
    GQB_Request({<<Id("sessions", "count")>>}, {<<>>, <<Id("users", "role")>>}, {<<>>},
                SeqsUpTo(GQB_FilterPool, MaxFilters), {<<>>}, {0})
    \cup
    GQB_Request({<<>>, <<Id("events", "count")>>}, {<<>>},
                SeqsUpTo(GQB_TimePool, MaxTimeDims),
                {<<>>, <<[member |-> BogusDimension, operator |-> "equals",
                          values |-> <<"student">>]>>},
                {<<>>}, {0})
    \cup
    GQB_Request({<<Id("events", "count")>>}, {<<>>, <<Id("users", "role")>>}, {<<>>}, {<<>>},
                SeqsUpTo(GQB_OrderPool, MaxOrder), {0})
    \cup
    GQB_Request({<<Id("events", "count")>>}, {<<>>}, {<<>>}, {<<>>},
                {<<>>, <<<<Id("events", "count"), <<"desc">>>>>>}, {0, 5, -1})
    \cup
    GQB_Request({<<Id("events", "count")>>}, {<<Id("users", "role")>>},
                {<<[dimension |-> Id("time", "date"), granularity |-> "day", dateRange |-> d]>> :
                    d \in {<<>>, <<"2024-01-01", "2024-01-31">>}},
                {<<>>, <<[member |-> Id("users", "role"), operator |-> "equals",
                          values |-> <<"student">>]>>},
                {<<>>}, {0})

\* Where a range over a map with these keys may begin.
IterStarts(keys) == IF keys = <<>> THEN {1} ELSE 1..Len(keys)

----------------------------------------------------------------------------
(* SeedMigrationManager: the seed migrations and their tracking table *)

getAvailableMigrations ==
    <<[ID |-> "001_initial_educational_data", Name |-> "Initial Educational Data",
       Version |-> "1.0.0", Execute |-> "executeInitialEducationalData"],
      [ID |-> "002_sample_quiz_responses", Name |-> "Sample Quiz Responses",
       Version |-> "1.0.0", Execute |-> "executeSampleQuizResponses"],
      [ID |-> "003_usage_analytics_data", Name |-> "Usage Analytics Data",
       Version |-> "1.0.0", Execute |-> "executeUsageAnalyticsData"]>>

\* A database whose seed_migrations table is empty, before any invocation:
\* rows are the IDs of the table's rows, oldest first; log is what the
\* invocations did (run being the invocation's number); returned is the error
\* each invocation returned.
Unseeded == [rows |-> <<>>, log |-> <<>>, returned |-> <<>>]

\* What the database and the migration function may answer while one
\* migration is handled: all goes well, the count of isMigrationExecuted
\* fails, migration.Execute returns an error, or the Create of the row fails.
Answers == {"ok", "count fails", "Execute fails", "Create fails"}

\* isMigrationExecuted when its query succeeds: count > 0.
isMigrationExecuted(db, migrationID) ==
    Cardinality({k \in 1..Len(db.rows) : db.rows[k] = migrationID}) > 0

\* executeMigration: it calls migration.Execute and, that having succeeded,
\* creates the row that records the execution.
executeMigration(db, migration, run, answer) ==
    LET called(ok) == Append(db.log, [run |-> run, id |-> migration.ID,
                                       did |-> IF ok THEN "Execute ok" ELSE "Execute failed"])
        recorded(log) == Append(log, [run |-> run, id |-> migration.ID, did |-> "recorded"])
    IN  IF answer = "Execute fails"
        THEN [db |-> [db EXCEPT !.log = called(FALSE)],
              err |-> <<"migration execution failed">>]
        ELSE IF answer = "Create fails"
        THEN [db |-> [db EXCEPT !.log = called(TRUE)],
              err |-> <<"failed to record migration execution">>]
        ELSE [db |-> [db EXCEPT !.rows = Append(@, migration.ID),
                                !.log = recorded(called(TRUE))],
              err |-> NoError]

\* The loop of RunPendingMigrations from the k-th migration on, answers[k]
\* being what the k-th migration meets.
RECURSIVE RunFrom(_, _, _, _, _)
RunFrom(migrations, k, db, run, answers) ==
    IF k > Len(migrations) THEN [db |-> db, err |-> NoError]
    ELSE LET migration == migrations[k] IN
         IF answers[k] = "count fails"
         THEN [db |-> db,
               err |-> <<"failed to check migration status for ", migration.ID>>]
         ELSE IF isMigrationExecuted(db, migration.ID)
         THEN RunFrom(migrations, k + 1, db, run, answers)
         ELSE LET done == executeMigration(db, migration, run, answers[k]) IN
              IF done.err # NoError
              THEN [db |-> done.db,
                    err |-> <<"failed to execute migration ", migration.ID, ": ">> \o done.err]
              ELSE RunFrom(migrations, k + 1, done.db, run, answers)

----------------------------------------------------------------------------
(* The handlers around the compilers *)

\* What arrives when the body does not bind to QueryRequest (ShouldBindJSON
\* fails), or the value is not of the cube request struct type.
Unbound == [bound |-> FALSE]

Bound(r) == "measures" \in DOMAIN r

\* c.ShouldBindJSON(&req) on a body that binds: the QueryRequest it fills.  The
\* decoder skips the keys the struct has no field for, so of a time dimension
\* it keeps the dimension and the granularity.
AH_ShouldBindJSON(body) ==
    [measures |-> body.measures,
     dimensions |-> body.dimensions,
     filters |-> body.filters,
     timeDimension |->
        [k \in 1..Len(body.timeDimension) |->
            [dimension |-> body.timeDimension[k].dimension,
             granularity |-> body.timeDimension[k].granularity]],
     limit |-> body.limit,
     offset |-> body.offset]

\* What a caller receives: the HTTP status and error code of a gin response
\* (status 0 for the values a Go method returns), the error text, the data.
NoResponse == [status |-> -1, code |-> "", details |-> NoError, data |-> <<>>]

\* The error of db.Raw(query).Scan(&results) when the database fails.
DbError == <<"database error">>

\* The rows db.Raw(query).Scan(&results) scans when it succeeds.
Rows == <<"rows">>

\* AnalyticsHandler.ExecuteQuery past buildQuery as it would be without the
\* return that ends its QUERY_BUILD_ERROR branch: the query is executed
\* whatever buildQuery said.
AH_AfterBuild_NoReturn(out, dbFailed) ==
    [queries |-> <<out.query>>,
     response |-> IF dbFailed
                  THEN [status |-> 500, code |-> "QUERY_EXECUTION_ERROR",
                        details |-> DbError, data |-> <<>>]
                  ELSE [status |-> 200, code |-> "", details |-> NoError, data |-> Rows]]

\* AnalyticsHandler.ExecuteQuery past buildQuery, which returned out: what it
\* hands to the database and what it answers, dbFailed being the database's
\* outcome.
AH_AfterBuild(out, dbFailed) ==
    IF out.err # NoError
    THEN [queries |-> <<>>,
          response |-> [status |-> 400, code |-> "QUERY_BUILD_ERROR",
                        details |-> out.err, data |-> <<>>]]
    ELSE [queries |-> <<out.query>>,
          response |-> IF dbFailed
                       THEN [status |-> 500, code |-> "QUERY_EXECUTION_ERROR",
                             details |-> DbError, data |-> <<>>]
                       ELSE [status |-> 200, code |-> "", details |-> NoError, data |-> Rows]]

\* GenericQueryBuilder.ExecuteQuery past buildSQL, which returned out: it
\* returns (results, error).
GQB_AfterBuild(out, dbFailed) ==
    IF out.err # NoError
    THEN [queries |-> <<>>,
          response |-> [status |-> 0, code |-> "", details |-> out.err, data |-> <<>>]]
    ELSE [queries |-> <<out.query>>,
          response |-> IF dbFailed
                       THEN [status |-> 0, code |-> "",
                             details |-> <<"query execution failed: ">> \o DbError,
                             data |-> <<>>]
                       ELSE [status |-> 0, code |-> "", details |-> NoError, data |-> Rows]]

----------------------------------------------------------------------------
(* Schema introspection *)

\* The entries of a map, one after the other, in an order of the runtime's.
RECURSIVE MapEntries(_)
MapEntries(m) ==
    IF m = {} THEN <<>>
    ELSE LET d == CHOOSE d \in m : TRUE IN <<d>> \o MapEntries(m \ {d})

\* The gin.H that GetAvailableMetrics builds of a name and its definition.
MetricEntry(def) ==
    [name |-> def.name, type |-> def.type, description |-> def.description,
     table |-> def.table]

\* GetAvailableMetrics as it would be if it made its slices with
\* make([]gin.H, len(...)) and appended to them: each list opens with as many
\* nil entries as the map has keys.
GetAvailableMetrics_Prefilled(startM, startD) ==
    LET schema == GetSchema
        ms == MapRange([keys |-> MapEntries(schema.Measures), start |-> startM])
        ds == MapRange([keys |-> MapEntries(schema.Dimensions), start |-> startD])
        nil == [name |-> <<>>, type |-> "", description |-> "", table |-> ""]
    IN  [measures |-> [i \in 1..Len(ms) |-> nil] \o [i \in 1..Len(ms) |-> MetricEntry(ms[i])],
         dimensions |-> [i \in 1..Len(ds) |-> nil] \o [i \in 1..Len(ds) |-> MetricEntry(ds[i])]]

\* GetAvailableMetrics, the ranges over schema.Measures and schema.Dimensions
\* beginning at startM and startD.
GetAvailableMetrics(startM, startD) ==
    LET schema == GetSchema
        ms == MapRange([keys |-> MapEntries(schema.Measures), start |-> startM])
        ds == MapRange([keys |-> MapEntries(schema.Dimensions), start |-> startD])
    IN  [measures |-> [i \in 1..Len(ms) |-> MetricEntry(ms[i])],
         dimensions |-> [i \in 1..Len(ds) |-> MetricEntry(ds[i])]]

----------------------------------------------------------------------------
(* The state machine: a request arrives at one of the two handlers, which
   compiles and executes it, or at the schema endpoint; the same request may
   be sent again. *)

Init ==
    /\ \/ handler = "generic" /\ req \in GQB_Requests \cup {Unbound}
       \/ handler = "analytics" /\ req \in AH_Requests \cup {Unbound}
       \/ handler = "schema" /\ req = Unbound
    /\ results = <<>>
    /\ written = Unwritten
    /\ executed = <<>>
    /\ response = NoResponse
    /\ workers = <<>>
    /\ seed = Unseeded

\* AnalyticsHandler.ExecuteQuery: it binds the request, builds the query
\* (buildQuery), executes it and answers.
AnalyticsBuildQuery ==
    /\ handler = "analytics"
    /\ Len(results) < MaxCompiles
    /\ IF ~Bound(req)
       THEN /\ response' = [status |-> 400, code |-> "VALIDATION_ERROR",
                            details |-> <<"bind error">>, data |-> <<>>]
            /\ UNCHANGED <<results, executed>>
       ELSE \E bound \in {AH_ShouldBindJSON(req)} :
            \E out \in {AH_buildQuery(bound)} :
            \E dbFailed \in BOOLEAN :
            \E done \in {AH_AfterBuild(out, dbFailed)} :
                /\ results' = Append(results, out)
                /\ executed' = executed \o done.queries
                /\ response' = done.response
    /\ UNCHANGED <<handler, req, written, workers, seed>>

\* GenericQueryBuilder.ExecuteQuery: it asserts the request's type, builds the
\* SQL (buildSQL) over a fresh schema, executes it and returns; the runtime
\* draws where a range over the tables map begins.
GenericBuildSQL ==
    /\ handler = "generic"
    /\ Len(results) < MaxCompiles
    /\ IF ~Bound(req)
       THEN /\ response' = [status |-> 0, code |-> "",
                            details |-> <<"invalid query request type">>, data |-> <<>>]
            /\ UNCHANGED <<results, executed>>
       ELSE \E schema \in {GetSchema} :
            \E start \in IterStarts(determineTables(req.measures, req.dimensions, schema)) :
            \E out \in {GQB_buildSQL(req, schema, start)} :
            \E dbFailed \in BOOLEAN :
            \E done \in {GQB_AfterBuild(out, dbFailed)} :
                /\ results' = Append(results, out)
                /\ executed' = executed \o done.queries
                /\ response' = done.response
    /\ UNCHANGED <<handler, req, written, workers, seed>>

\* GET /api/v1/query/schema: the handler answers 200 with what
\* GetAvailableMetrics returns.
SchemaEndpoint ==
    /\ handler = "schema"
    /\ \E startM \in IterStarts(MapEntries(GetSchema.Measures)) :
       \E startD \in IterStarts(MapEntries(GetSchema.Dimensions)) :
            response' = [status |-> 200, code |-> "", details |-> NoError,
                         data |-> <<GetAvailableMetrics(startM, startD)>>]
    /\ UNCHANGED <<handler, req, results, written, executed, workers, seed>>

Next == AnalyticsBuildQuery \/ GenericBuildSQL \/ SchemaEndpoint

Spec == Init /\ [][Next]_vars

----------------------------------------------------------------------------
(* The seed migration manager: RunPendingMigrations is invoked, time and
   again, on the same database. *)

SeedInit ==
    /\ handler = "seed"
    /\ req = Unbound
    /\ results = <<>>
    /\ written = Unwritten
    /\ executed = <<>>
    /\ response = NoResponse
    /\ workers = <<>>
    /\ seed = Unseeded

\* SeedMigrationManager.RunPendingMigrations, from its entry to its return.
RunPendingMigrations ==
    /\ handler = "seed"
    /\ Len(seed.returned) < MaxRuns
    /\ \E migrations \in {getAvailableMigrations} :
       \E answers \in [1..Len(migrations) -> Answers] :
       \E done \in {RunFrom(migrations, 1, seed, Len(seed.returned) + 1, answers)} :
            seed' = [done.db EXCEPT !.returned = Append(@, done.err)]
    /\ UNCHANGED <<handler, req, results, written, executed, response, workers>>

SeedNext == RunPendingMigrations

SeedSpec == SeedInit /\ [][SeedNext]_vars

----------------------------------------------------------------------------
(* Concurrent compilations: gin serves every request on a goroutine of its
   own, so several invocations of buildQuery and buildSQL are in progress at
   once.  Each worker is one invocation; the package-level maps are all that
   the invocations share. *)

\* A read m[key] of a Go map as it would be if reading an absent key stored it
\* with the zero value.
MapAfterRead_Inserting(m, key) ==
    IF Exists(m, key) THEN m ELSE m \cup {[name |-> key, sql |-> ""]}

\* A read m[key] of a Go map, with or without the comma-ok, leaves the map as
\* it is.
MapAfterRead(m, key) == m

RECURSIVE MapAfterReads(_, _)
MapAfterReads(m, keys) ==
    IF keys = <<>> THEN m ELSE MapAfterReads(MapAfterRead(m, Head(keys)), Tail(keys))

\* The entries of s up to and including the first that fails known.
ReadsUntilUnknown(s, m) ==
    IF \E i \in 1..Len(s) : ~Exists(m, s[i])
    THEN SubSeq(s, 1, FirstTrue([i \in 1..Len(s) |-> ~Exists(m, s[i])]))
    ELSE s

\* The keys the three loops that open buildQuery look up, in each map.
AH_SelectReads(r) ==
    LET allM == \A i \in 1..Len(r.measures) : Exists(measureMap, r.measures[i])
        allD == \A i \in 1..Len(r.dimensions) : Exists(dimensionMap, r.dimensions[i])
    IN  [measures |-> ReadsUntilUnknown(r.measures, measureMap),
         dimensions |->
            (IF allM THEN ReadsUntilUnknown(r.dimensions, dimensionMap) ELSE <<>>)
            \o (IF allM /\ allD
                THEN [i \in 1..Len(r.timeDimension) |-> r.timeDimension[i].dimension]
                ELSE <<>>)]

\* The keys buildWhereClause and buildGroupByClause look up in dimensionMap.
AH_ClauseReads(r) ==
    ReadsUntilUnknown([i \in 1..Len(r.filters) |-> r.filters[i].dimension], dimensionMap)
    \o (IF \A i \in 1..Len(r.filters) : AH_buildFilterCondition(r.filters[i]).err = NoError
        THEN r.dimensions \o [i \in 1..Len(r.timeDimension) |-> r.timeDimension[i].dimension]
        ELSE <<>>)

\* The invocations that run side by side.
ConcurrentCalls ==
    [handler : {"analytics"},
     req : AH_Request({<<Id("sessions", "count")>>, <<BogusMeasure>>},
                      {<<Id("users", "role")>>, <<BogusDimension>>},
                      {<<>>, <<[dimension |-> BogusDimension, operator |-> "eq",
                                value |-> [array |-> FALSE, items |-> <<"student">>]]>>},
                      {<<>>}, {<<>>}, {<<>>})]
    \cup
    [handler : {"generic"},
     req : GQB_Request({<<Id("sessions", "count")>>, <<BogusMeasure>>},
                       {<<Id("users", "role"), Id("schools", "name")>>, <<BogusDimension>>},
                       {<<>>}, {<<>>}, {<<>>}, {0})]

\* A worker that has not begun: pc is its position, sel what the select loops
\* returned, schema its local copy of the schema, seen what it found stored
\* into the shared maps at each of its steps, out what the compilation returned.
Idle(call) ==
    [handler |-> call.handler, req |-> call.req, pc |-> "start",
     sel |-> [selects |-> <<>>, err |-> NoError],
     schema |-> [Measures |-> {}, Dimensions |-> {}],
     seen |-> <<>>, out |-> Failed(NoError)]

Registry == [measureMap |-> measureMap, dimensionMap |-> dimensionMap]

ConcurrentInit ==
    /\ handler = "workers"
    /\ req = Unbound
    /\ results = <<>>
    /\ written = Unwritten
    /\ executed = <<>>
    /\ response = NoResponse
    /\ workers \in [1..MaxWorkers -> {Idle(call) : call \in ConcurrentCalls}]
    /\ seed = Unseeded

\* buildQuery, from its entry to selectClause := strings.Join(selects, ", ").
AH_WorkerSelect(w) ==
    /\ workers[w].handler = "analytics"
    /\ workers[w].pc = "start"
    /\ LET r == workers[w].req
           reads == AH_SelectReads(r)
       IN  /\ workers' = [workers EXCEPT ![w].pc = "selected",
                                         ![w].sel = AH_SelectClause(r),
                                         ![w].seen = Append(@, written)]
           /\ written' =
                [measureMap |-> MapAfterReads(measureMap, reads.measures) \ measureMapLiteral,
                 dimensionMap |-> MapAfterReads(dimensionMap, reads.dimensions) \ dimensionMapLiteral]
    /\ UNCHANGED <<handler, req, results, executed, response, seed>>

\* buildQuery, from buildFromClause to its return.
AH_WorkerClauses(w) ==
    /\ workers[w].handler = "analytics"
    /\ workers[w].pc = "selected"
    /\ LET r == workers[w].req
           sel == workers[w].sel
       IN  /\ workers' = [workers EXCEPT ![w].pc = "done",
                                         ![w].out = IF sel.err # NoError THEN Failed(sel.err)
                                                    ELSE AH_Clauses(r, sel.selects),
                                         ![w].seen = Append(@, written)]
           /\ written' =
                [written EXCEPT !.dimensionMap =
                    IF sel.err # NoError THEN @
                    ELSE MapAfterReads(dimensionMap, AH_ClauseReads(r)) \ dimensionMapLiteral]
    /\ UNCHANGED <<handler, req, results, executed, response, seed>>

\* GenericQueryBuilder.ExecuteQuery: schema := q.GetSchema().
GQB_WorkerGetSchema(w) ==
    /\ workers[w].handler = "generic"
    /\ workers[w].pc = "start"
    /\ workers' = [workers EXCEPT ![w].pc = "selected",
                                  ![w].schema = GetSchema,
                                  ![w].seen = Append(@, written)]
    /\ UNCHANGED <<handler, req, results, executed, response, written, seed>>

\* GenericQueryBuilder.ExecuteQuery: query, err := q.buildSQL(req, schema).
GQB_WorkerBuildSQL(w) ==
    /\ workers[w].handler = "generic"
    /\ workers[w].pc = "selected"
    /\ LET r == workers[w].req
           schema == workers[w].schema
       IN  \E start \in IterStarts(determineTables(r.measures, r.dimensions, schema)) :
                workers' = [workers EXCEPT ![w].pc = "done",
                                           ![w].out = GQB_buildSQL(r, schema, start),
                                           ![w].seen = Append(@, written)]
    /\ UNCHANGED <<handler, req, results, executed, response, written, seed>>

ConcurrentNext ==
    \E w \in 1..MaxWorkers :
        \/ AH_WorkerSelect(w)
        \/ AH_WorkerClauses(w)
        \/ GQB_WorkerGetSchema(w)
        \/ GQB_WorkerBuildSQL(w)

ConcurrentSpec == ConcurrentInit /\ [][ConcurrentNext]_vars

----------------------------------------------------------------------------
(* Vocabulary of the properties *)

IsAnalytics == handler = "analytics"
IsGeneric == handler = "generic"

Compilations == 1..Len(results)
Succeeded(i) == results[i].err = NoError

FilterDimensions(r) ==
    IF IsAnalytics THEN {r.filters[i].dimension : i \in 1..Len(r.filters)}
    ELSE {r.filters[i].member : i \in 1..Len(r.filters)}

TimeClauses(r) == IF IsAnalytics THEN r.timeDimension ELSE r.timeDimensions

TimeDimensionIds(r) == {TimeClauses(r)[i].dimension : i \in 1..Len(TimeClauses(r))}

KnownMeasure(m) ==
    IF IsAnalytics THEN Exists(measureMap, m) ELSE Exists(GetSchema.Measures, m)

KnownDimension(d) ==
    IF IsAnalytics THEN Exists(dimensionMap, d) ELSE Exists(GetSchema.Dimensions, d)

\* The identifiers of the request that its handler's registry does not hold.
UnknownIdentifiers(r) ==
    {m \in Range(r.measures) : ~KnownMeasure(m)}
    \cup {d \in Range(r.dimensions) \cup FilterDimensions(r) \cup TimeDimensionIds(r) :
            ~KnownDimension(d)}

\* The error text ends with the identifier.
NamesIdentifier(err, id) ==
    Len(err) > Len(id) /\ SubSeq(err, Len(err) - Len(id) + 1, Len(err)) = id

SupportedOperators == {"eq", "ne", "gt", "gte", "lt", "lte", "in", "contains"}
SupportedGranularities == {"hour", "day", "week", "month", "quarter", "year"}

\* How many values a filter clause carries.
Arity(f) ==
    IF IsAnalytics THEN (IF f.value.array THEN Len(f.value.items) ELSE 1)
    ELSE Len(f.values)

WrongArity(f) ==
    \/ f.operator \in {"eq", "ne", "gt", "gte", "lt", "lte", "contains"} /\ Arity(f) # 1
    \/ f.operator = "in" /\ Arity(f) = 0

\* The owning tables of the requested measures and dimensions.
AH_RequiredTables(r) ==
    LET needs == AH_Needs(r)
    IN  {t \in {"quiz_responses", "quiz_questions", "quizzes", "sessions", "events", "users",
                "classrooms", "schools", "classroom_analytics"} :
            \/ t = "quiz_responses" /\ needs.QuizResponses
            \/ t = "quiz_questions" /\ needs.QuizQuestions
            \/ t = "quizzes" /\ needs.Quizzes
            \/ t = "sessions" /\ needs.Sessions
            \/ t = "events" /\ needs.Events
            \/ t = "users" /\ needs.Users
            \/ t = "classrooms" /\ needs.Classrooms
            \/ t = "schools" /\ needs.Schools
            \/ t = "classroom_analytics" /\ needs.ClassroomAnalytics}

RequiredTables(r) ==
    IF IsAnalytics THEN AH_RequiredTables(r)
    ELSE Range(determineTables(r.measures, r.dimensions, GetSchema))

JoinedTables(i) == {results[i].joins[k].table : k \in 1..Len(results[i].joins)}

\* The first entry of order that is in T; order must hold one.
FirstPresent(order, T) ==
    order[CHOOSE k \in 1..Len(order) : order[k] \in T /\ \A j \in 1..(k - 1) : order[j] \notin T]

AnyPresent(order, T) == \E k \in 1..Len(order) : order[k] \in T

\* The request with every filter value and every date-range bound replaced by v.
WithValues(r, v) ==
    IF IsAnalytics
    THEN [r EXCEPT !.filters =
            [i \in 1..Len(r.filters) |->
                [r.filters[i] EXCEPT !.value.items =
                    [k \in 1..Len(r.filters[i].value.items) |-> v]]]]
    ELSE [r EXCEPT !.filters =
            [i \in 1..Len(r.filters) |->
                [r.filters[i] EXCEPT !.values = [k \in 1..Len(r.filters[i].values) |-> v]]],
          !.timeDimensions =
            [i \in 1..Len(r.timeDimensions) |->
                [r.timeDimensions[i] EXCEPT !.dateRange =
                    [k \in 1..Len(r.timeDimensions[i].dateRange) |-> v]]]]

Compile(r) ==
    IF IsAnalytics THEN AH_buildQuery(AH_ShouldBindJSON(r)) ELSE GQB_buildSQL(r, GetSchema, 1)

----------------------------------------------------------------------------
(* Properties *)

\* C1: a request holding an identifier that is absent from the registry never
\* compiles; the compilation fails with an error that names such an identifier.
C1_UnknownIdentifierFails ==
    \A i \in Compilations :
        UnknownIdentifiers(req) # {} =>
            /\ ~Succeeded(i)
            /\ \E id \in UnknownIdentifiers(req) : NamesIdentifier(results[i].err, id)

\* C2: compilation is all-or-nothing: an error comes with the empty query
\* text, and a query text comes only when every identifier, operator and
\* granularity of the request was validated and every selected member and
\* every filter clause has its entry in the query.
C2_AllOrNothing ==
    \A i \in Compilations :
        /\ ~Succeeded(i) => results[i].query = <<>>
        /\ results[i].query # <<>> =>
            /\ UnknownIdentifiers(req) = {}
            /\ \A k \in 1..Len(req.filters) : req.filters[k].operator \in SupportedOperators
            /\ \A k \in 1..Len(TimeClauses(req)) :
                    TimeClauses(req)[k].granularity \in SupportedGranularities
            /\ Len(results[i].selects) =
                    Len(req.measures) + Len(req.dimensions) + Len(TimeClauses(req))
            /\ Len(results[i].conditions) >= Len(req.filters)

\* C3: compiling the same request again yields the same output (error, query
\* text, select list, from and joins, predicate, group-by, order-by, limit),
\* wherever the runtime begins its range over the tables map.
C3_Deterministic ==
    \A i, j \in Compilations : results[i] = results[j]

\* C3 witness: the generic builder compiled a request twice, successfully,
\* with at least three required tables and two joins.
C3_Witness ==
    /\ IsGeneric
    /\ Len(results) >= 2
    /\ Succeeded(1)
    /\ Len(determineTables(req.measures, req.dimensions, GetSchema)) >= 3
    /\ Len(results[1].joins) >= 2

\* C4: no filter value and no date-range bound appears in the compiled query
\* text, and replacing the values of the request leaves the text unchanged.
C4_ValuesNotInText ==
    \A i \in Compilations :
        Succeeded(i) =>
            /\ Range(results[i].query) \cap (Values \cup Dates) = {}
            /\ \A v \in Values : Compile(WithValues(req, v)).query = results[i].query

\* C5: a filter on a known dimension whose operator (one of eq, ne, gt, gte,
\* lt, lte, contains with other than one value, or in with none) is given the
\* wrong number of values makes the compilation fail; it is neither dropped
\* nor rendered as an empty IN () list.
C5_ArityChecked ==
    \A i \in Compilations :
        (/\ UnknownIdentifiers(req) = {}
         /\ \E k \in 1..Len(req.filters) : WrongArity(req.filters[k]))
        => ~Succeeded(i)

\* C6: a filter on a known dimension, with one value, whose operator is
\* outside eq, ne, gt, gte, lt, lte, in, contains makes the compilation fail
\* with an error that names the operator.
C6_UnsupportedOperatorFails ==
    \A i \in Compilations :
        \A k \in 1..Len(req.filters) :
            (/\ UnknownIdentifiers(req) = {}
             /\ req.filters[k].operator \notin SupportedOperators
             /\ Arity(req.filters[k]) = 1)
            => /\ ~Succeeded(i)
               /\ NamesIdentifier(results[i].err, <<req.filters[k].operator>>)

\* C7: a time dimension whose granularity is outside hour, day, week, month,
\* quarter, year makes the compilation fail with an error that names the
\* granularity; the untruncated expression is never selected in its place.
C7_UnsupportedGranularityFails ==
    \A i \in Compilations :
        (/\ UnknownIdentifiers(req) = {}
         /\ \E k \in 1..Len(TimeClauses(req)) :
                TimeClauses(req)[k].granularity \notin SupportedGranularities)
        => /\ ~Succeeded(i)
           /\ \E k \in 1..Len(TimeClauses(req)) :
                /\ TimeClauses(req)[k].granularity \notin SupportedGranularities
                /\ NamesIdentifier(results[i].err, <<TimeClauses(req)[k].granularity>>)

\* C8: in a compiled query every required table other than the primary table
\* is the table of one of the emitted joins (there being no other outcome
\* than a compilation error).
C8_RequiredTablesJoined ==
    \A i \in Compilations :
        Succeeded(i) =>
            RequiredTables(req) \ {results[i].from.table} \subseteq JoinedTables(i)

\* C9: a request with no measure, no dimension and no time dimension makes the
\* compilation fail, and no compiled query has an empty select list.
C9_EmptySelectionFails ==
    \A i \in Compilations :
        /\ (Len(req.measures) = 0 /\ Len(req.dimensions) = 0 /\ Len(TimeClauses(req)) = 0)
                => ~Succeeded(i)
        /\ Succeeded(i) => Len(results[i].selects) > 0

ClaimedPriority ==
    <<"events", "sessions", "users", "quizzes", "content", "schools", "classrooms">>

AH_BasePriority == <<"sessions", "quiz_responses", "events", "classroom_analytics">>

\* C10 as claimed: in every compiled query of either compiler the primary table
\* is the first table of events, sessions, users, quizzes, content, schools,
\* classrooms that the request requires, and repeated compilations agree on it.
C10_PrimaryByClaimedPriority ==
    \A i \in Compilations :
        Succeeded(i) =>
            /\ AnyPresent(ClaimedPriority, RequiredTables(req)) =>
                    results[i].from.table = FirstPresent(ClaimedPriority, RequiredTables(req))
            /\ \A j \in Compilations : Succeeded(j) /\ results[j].from = results[i].from

\* C10 as amended: the generic builder takes the first table of events,
\* sessions, users, quizzes, content, schools, classrooms that the request
\* requires, when it requires one of them; the analytics handler takes the
\* first of sessions, quiz_responses, events, classroom_analytics that the
\* request needs, and users when it needs none of them; repeated
\* compilations of a request agree on the primary table.
C10_PrimaryTableChoice ==
    \A i \in Compilations :
        Succeeded(i) =>
            /\ IsGeneric =>
                    (AnyPresent(ClaimedPriority, RequiredTables(req)) =>
                        results[i].from.table =
                            FirstPresent(ClaimedPriority, RequiredTables(req)))
            /\ IsAnalytics =>
                    results[i].from.table =
                        (IF AnyPresent(AH_BasePriority, RequiredTables(req))
                         THEN FirstPresent(AH_BasePriority, RequiredTables(req))
                         ELSE "users")
            /\ \A j \in Compilations : Succeeded(j) /\ results[j].from = results[i].from

\* C10 witness: the generic builder compiled, twice, a request that requires
\* two tables of the priority list and took the earlier one, sessions.
C10_Witness ==
    /\ IsGeneric
    /\ Len(results) >= 2
    /\ Succeeded(2)
    /\ {"sessions", "users"} \subseteq RequiredTables(req)
    /\ results[2].from.table = "sessions"

----------------------------------------------------------------------------
(* Concurrent compilations *)

RegistryLiteral == [measureMap |-> measureMapLiteral, dimensionMap |-> dimensionMapLiteral]

\* What compiling the worker's request alone returns.
Alone(w) ==
    IF workers[w].handler = "analytics" THEN AH_buildQuery(workers[w].req)
    ELSE GQB_buildSQL(workers[w].req, GetSchema, 1)

\* C11: whatever the interleaving of the concurrent compilations, the shared
\* maps stay as their literals set them, every invocation finds them so at
\* each of its steps, every invocation of the generic builder works on the
\* same schema, and every finished invocation returned what compiling its
\* request alone returns.
C11_Isolation ==
    /\ Registry = RegistryLiteral
    /\ \A w \in DOMAIN workers :
        /\ \A k \in 1..Len(workers[w].seen) : workers[w].seen[k] = Unwritten
        /\ (workers[w].handler = "generic" /\ workers[w].pc # "start")
                => workers[w].schema = GetSchema
        /\ workers[w].pc = "done" => workers[w].out = Alone(w)

\* C11 witness: two invocations of buildQuery have both finished, one having
\* looked up a dimension the map does not hold, the other having compiled.
C11_Witness ==
    \E v, w \in DOMAIN workers :
        /\ v # w
        /\ workers[v].handler = "analytics" /\ workers[w].handler = "analytics"
        /\ workers[v].pc = "done" /\ workers[w].pc = "done"
        /\ BogusDimension \in Range(workers[v].req.dimensions)
        /\ workers[v].out.err # NoError
        /\ workers[w].out.err = NoError
        /\ Len(workers[w].seen) = 2

----------------------------------------------------------------------------
(* The query-execution path *)

\* The query texts of the compilations that succeeded, oldest first.
RECURSIVE CompiledQueries(_)
CompiledQueries(rs) ==
    IF rs = <<>> THEN <<>>
    ELSE (IF Head(rs).err = NoError THEN <<Head(rs).query>> ELSE <<>>)
         \o CompiledQueries(Tail(rs))

\* C12: the database is handed exactly the query texts of the compilations
\* that succeeded, so none for a compilation that failed; and when the last
\* compilation failed the caller received its error as a client-input error
\* (status 400, code QUERY_BUILD_ERROR from AnalyticsHandler; the returned
\* error from GenericQueryBuilder) with no data, the handler having answered.
C12_ExecuteOnlyCompiled ==
    /\ executed = CompiledQueries(results)
    /\ \A i \in Compilations :
        (i = Len(results) /\ ~Succeeded(i)) =>
            /\ response.details = results[i].err
            /\ response.data = <<>>
            /\ IsAnalytics => response.status = 400 /\ response.code = "QUERY_BUILD_ERROR"
            /\ IsGeneric => response.status = 0

\* C12 witness: AnalyticsHandler.ExecuteQuery answered 400 to a request whose
\* compilation failed, and nothing was handed to the database.
C12_Witness ==
    /\ IsAnalytics
    /\ Len(results) >= 1
    /\ ~Succeeded(Len(results))
    /\ response.status = 400
    /\ executed = <<>>

----------------------------------------------------------------------------
(* Worked requests *)

\* How many entries of s equal x.
Count(s, x) == Cardinality({i \in 1..Len(s) : s[i] = x})

\* The expression the handler's registry holds for a dimension.
DimensionSQL(d) ==
    IF IsAnalytics THEN Lookup(dimensionMap, d).sql ELSE Lookup(GetSchema.Dimensions, d).sql

MeasureSQL(m) ==
    IF IsAnalytics THEN Lookup(measureMap, m).sql ELSE Lookup(GetSchema.Measures, m).sql

\* C13: the request with measures [sessions.count], no dimension, no filter
\* and no time dimension compiles, by either compiler, to a query whose select
\* list is the one aggregate and that has neither GROUP BY nor WHERE.
C13_SingleAggregate ==
    \A i \in Compilations :
        (/\ req.measures = <<Id("sessions", "count")>>
         /\ req.dimensions = <<>>
         /\ req.filters = <<>>
         /\ TimeClauses(req) = <<>>)
        => /\ Succeeded(i)
           /\ Len(results[i].selects) = 1
           /\ results[i].selects[1].expr = <<MeasureSQL(Id("sessions", "count"))>>
           /\ results[i].groups = <<>>
           /\ results[i].conditions = <<>>
           /\ {" GROUP BY ", " WHERE "} \cap Range(results[i].query) = {}

\* C13 witness: the generic builder compiled that very request.
C13_Witness ==
    /\ IsGeneric
    /\ Len(results) >= 1
    /\ req.measures = <<Id("sessions", "count")>>
    /\ req.dimensions = <<>> /\ req.filters = <<>> /\ req.timeDimensions = <<>>
    /\ results[1].query = <<"SELECT ", "COUNT(*)", " AS ", "sessions", "_", "count",
                            " FROM ", "sessions", " ", "s">>

\* C14: a request of the generic builder with dimensions [users.role] and an
\* order list that orders by users.role only, however often, compiles with
\* the role expression exactly once in GROUP BY; and in no compiled query does
\* GROUP BY hold more entries than the request has dimensions and time
\* dimensions.
C14_OrderNotGrouped ==
    \A i \in Compilations :
        IsGeneric =>
            /\ (/\ req.dimensions = <<Id("users", "role")>>
                /\ Len(req.order) >= 1
                /\ \A k \in 1..Len(req.order) : req.order[k][1] = Id("users", "role"))
               => /\ Succeeded(i)
                  /\ Count(results[i].groups, <<DimensionSQL(Id("users", "role"))>>) = 1
                  /\ Count(results[i].query, " GROUP BY ") = 1
            /\ Succeeded(i) =>
                    Len(results[i].groups) <= Len(req.dimensions) + Len(req.timeDimensions)

\* C14 witness: users.role was the one dimension and was ordered by twice,
\* both times in ORDER BY.
C14_Witness ==
    /\ IsGeneric
    /\ Len(results) >= 1
    /\ req.dimensions = <<Id("users", "role")>>
    /\ req.order = <<<<Id("users", "role"), <<"asc">>>>, <<Id("users", "role"), <<"DESC">>>>>>
    /\ results[1].orderBy = <<"users", "_", "role", " ", "ASC", ", ",
                              "users", "_", "role", " ", "DESC">>
    /\ results[1].groups = <<<<"role">>>>

\* The values of a filter clause, whichever the handler.
FilterValues(f) == IF IsAnalytics THEN f.value.items ELSE f.values

FilterMember(f) == IF IsAnalytics THEN f.dimension ELSE f.member

\* C15: the request measures [sessions.count], dimensions [users.role],
\* filters [{users.role, eq, [student]}] compiles, by either compiler, to a
\* query on sessions, joined to users on the session's user id, whose predicate
\* is the role expression = 'student' and whose GROUP BY is the role
\* expression.
C15_RoleEqualsStudent ==
    \A i \in Compilations :
        (/\ req.measures = <<Id("sessions", "count")>>
         /\ req.dimensions = <<Id("users", "role")>>
         /\ TimeClauses(req) = <<>>
         /\ Len(req.filters) = 1
         /\ FilterMember(req.filters[1]) = Id("users", "role")
         /\ req.filters[1].operator = "eq"
         /\ FilterValues(req.filters[1]) = <<"student">>
         /\ IsAnalytics => ~req.filters[1].value.array)
        => /\ Succeeded(i)
           /\ results[i].from.table = "sessions"
           /\ \E k \in 1..Len(results[i].joins) :
                /\ results[i].joins[k].table = "users"
                /\ results[i].joins[k].on = "s.user_id = u.id"
           /\ results[i].conditions =
                <<<<DimensionSQL(Id("users", "role")), " = '", "student", "'">>>>
           /\ results[i].groups = <<<<DimensionSQL(Id("users", "role"))>>>>

\* The token that opens the comparison each operator stands for.
Symbol(op) ==
    CASE op = "eq" -> " = '" [] op = "ne" -> " != '" [] op = "gt" -> " > '"
      [] op = "gte" -> " >= '" [] op = "lt" -> " < '" [] op = "lte" -> " <= '"
      [] op = "in" -> " IN (" [] op = "contains" -> " ILIKE '%"

\* A filter clause with one of the eight operators and a fitting value: one
\* value, or for in a list of at least one.
WellFormed(f) ==
    /\ f.operator \in SupportedOperators
    /\ ~WrongArity(f)
    /\ IsAnalytics => (f.value.array <=> f.operator = "in")

\* C16: a filter on a known dimension with any of eq, ne, gt, gte, lt, lte,
\* in, contains and a fitting number of values is accepted: the compilation
\* succeeds and the predicate holds a fragment that compares the dimension's
\* registry expression by that operator's comparison.
C16_EightOperators ==
    \A i \in Compilations :
        \A k \in 1..Len(req.filters) :
            (UnknownIdentifiers(req) = {} /\ WellFormed(req.filters[k]))
            => /\ Succeeded(i)
               /\ \E c \in Range(results[i].conditions) :
                    /\ Len(c) >= 2
                    /\ c[1] = DimensionSQL(FilterMember(req.filters[k]))
                    /\ c[2] = Symbol(req.filters[k].operator)

\* The request with the granularity of its k-th time dimension set to g.
WithGranularity(r, k, g) ==
    IF IsAnalytics THEN [r EXCEPT !.timeDimension[k].granularity = g]
    ELSE [r EXCEPT !.timeDimensions[k].granularity = g]

\* The select entry of the k-th time dimension of a request whose identifiers
\* are all known.
TimeSelect(r, out, k) == out.selects[Len(r.measures) + Len(r.dimensions) + k]

\* C17: a time dimension on a known dimension with any of hour, day, week,
\* month, quarter, year compiles, and its select entry is an expression that
\* wraps the dimension's registry expression and differs from the entry
\* any other of the six granularities yields.
C17_SixGranularities ==
    \A i \in Compilations :
        \A k \in 1..Len(TimeClauses(req)) :
            (UnknownIdentifiers(req) = {}
             /\ TimeClauses(req)[k].granularity \in SupportedGranularities)
            => /\ Succeeded(i)
               /\ LET sql == DimensionSQL(TimeClauses(req)[k].dimension)
                      expr == TimeSelect(req, results[i], k).expr
                  IN  /\ sql \in Range(expr)
                      /\ expr # <<sql>>
                      /\ \A g \in SupportedGranularities \ {TimeClauses(req)[k].granularity} :
                            TimeSelect(req, Compile(WithGranularity(req, k, g)), k).expr # expr

----------------------------------------------------------------------------
(* Schema introspection *)

\* The catalogue entry of a definition of the registry.
Catalogued(defs) ==
    {[name |-> d.name, type |-> d.type, description |-> d.description, table |-> d.table] :
        d \in defs}

\* C18: what the schema endpoint answers holds, for the measures and for the
\* dimensions, exactly the catalogue entries (name, kind, owning table,
\* description) of the registry, each once, whatever the order the runtime
\* ranges in; and nothing has been stored into the registry.
C18_Introspection ==
    (handler = "schema" /\ response.status = 200) =>
        LET body == response.data[1]
        IN  /\ Range(body.measures) = Catalogued(GetSchema.Measures)
            /\ Len(body.measures) = Cardinality(GetSchema.Measures)
            /\ Range(body.dimensions) = Catalogued(GetSchema.Dimensions)
            /\ Len(body.dimensions) = Cardinality(GetSchema.Dimensions)
            /\ written = Unwritten

\* C18 witness: the endpoint answered, the range over the measures having
\* begun elsewhere than the range over the dimensions.
C18_Witness ==
    /\ handler = "schema"
    /\ response.status = 200
    /\ response.data[1].measures[1].table # response.data[1].dimensions[1].table
    /\ \E i \in 1..Len(response.data[1].dimensions) :
            response.data[1].dimensions[i] =
                [name |-> Id("classrooms", "grade_level"), type |-> "number",
                 description |-> "Classroom grade level", table |-> "classrooms"]

----------------------------------------------------------------------------
(* The clauses of a compiled query *)

\* C19: every join of every compiled query is a LEFT JOIN, in its record and
\* in the query text, which holds no inner JOIN.
C19_OnlyLeftJoins ==
    \A i \in Compilations :
        Succeeded(i) =>
            /\ \A k \in 1..Len(results[i].joins) : results[i].joins[k].kind = "LEFT JOIN"
            /\ "JOIN" \notin Range(results[i].query)

\* C20: the select list of a compiled query whose identifiers are all known
\* has one entry per measure in request order, then one per dimension in
\* request order, then one per time dimension; the alias of a measure or
\* dimension is its identifier with every "." replaced by "_", and the alias
\* of the time entry is time.
C20_SelectList ==
    \A i \in Compilations :
        (Succeeded(i) /\ UnknownIdentifiers(req) = {}) =>
            LET sel == results[i].selects
                M == Len(req.measures)
                D == Len(req.dimensions)
                T == Len(TimeClauses(req))
            IN  /\ Len(sel) = M + D + T
                /\ \A k \in 1..M :
                    /\ sel[k].expr = <<MeasureSQL(req.measures[k])>>
                    /\ sel[k].alias = ReplaceAll(req.measures[k], ".", "_")
                /\ \A k \in 1..D :
                    /\ sel[M + k].expr = <<DimensionSQL(req.dimensions[k])>>
                    /\ sel[M + k].alias = ReplaceAll(req.dimensions[k], ".", "_")
                /\ \A k \in 1..T : sel[M + D + k].alias = <<"time">>

HasRange(t) == "dateRange" \in DOMAIN t /\ Len(t.dateRange) = 2

\* The time dimension clauses of the request that carry a date range.
TimeRanges(r) == SelectSeq(TimeClauses(r), HasRange)

\* C22: in a compiled query whose identifiers are all known and whose filter
\* clauses are well formed, the predicate holds one fragment per filter
\* clause, in the order of the clauses, then one per time range, so as many
\* fragments as there are filter clauses and time ranges; the query text
\* holds WHERE exactly when there is a filter clause or a time range, and
\* its fragments are joined by AND.
C22_WhereConjunction ==
    \A i \in Compilations :
        (/\ Succeeded(i)
         /\ UnknownIdentifiers(req) = {}
         /\ \A k \in 1..Len(req.filters) : WellFormed(req.filters[k]))
        => LET conds == results[i].conditions
               F == Len(req.filters)
               R == Len(TimeRanges(req))
           IN  /\ Len(conds) = F + R
               /\ \A k \in 1..F :
                    /\ k <= Len(conds)
                    /\ conds[k][1] = DimensionSQL(FilterMember(req.filters[k]))
                    /\ conds[k][2] = Symbol(req.filters[k].operator)
               /\ Count(results[i].query, " WHERE ") = (IF F + R > 0 THEN 1 ELSE 0)
               /\ F + R > 0 => Count(results[i].query, " AND ") = F + R - 1

\* The inclusive BETWEEN fragment over the registry expression of the time
\* dimension of clause t.
Between(t) ==
    <<DimensionSQL(t.dimension), " BETWEEN '", t.dateRange[1], "' AND '", t.dateRange[2], "'">>

IsBetween(c) == Len(c) >= 2 /\ c[2] = " BETWEEN '"

\* C23: in a compiled query whose identifiers are all known the predicate
\* ends with one BETWEEN from AND to fragment, over the time dimension's
\* registry expression, for each time dimension clause that carries a date
\* range, after every filter fragment; and it holds no other BETWEEN
\* fragment, so none when no date range is given.
C23_DateRange ==
    \A i \in Compilations :
        (Succeeded(i) /\ UnknownIdentifiers(req) = {}) =>
            LET conds == results[i].conditions
                ranges == TimeRanges(req)
                R == Len(ranges)
                N == Len(conds)
            IN  /\ N >= R
                /\ \A k \in 1..R : conds[N - R + k] = Between(ranges[k])
                /\ \A k \in 1..(N - R) : ~IsBetween(conds[k])

\* The explicit order list of the request: empty when it gives none.
OrderList(r) == IF "order" \in DOMAIN r THEN r.order ELSE <<>>

\* An order item that names a selected measure or dimension and a direction.
OrderItemValid(r, item) ==
    /\ Len(item) = 2
    /\ item[1] \in Range(r.measures) \cup Range(r.dimensions)
    /\ ToUpper(item[2]) \in {<<"ASC">>, <<"DESC">>}

\* C24: a compiled query whose identifiers are all known is ordered by the
\* explicit order list (the alias and the direction of each item, in order)
\* when the request gives one of valid items; by time ASC when it gives none
\* and has a time dimension; and has no ORDER BY when it has neither.
C24_OrderBy ==
    \A i \in Compilations :
        (Succeeded(i) /\ UnknownIdentifiers(req) = {}) =>
            LET order == OrderList(req)
                T == Len(TimeClauses(req))
                orderBy == results[i].orderBy
            IN  /\ (order # <<>> /\ \A k \in 1..Len(order) : OrderItemValid(req, order[k]))
                        => orderBy = Join([k \in 1..Len(order) |->
                                            ReplaceAll(order[k][1], ".", "_") \o <<" ">>
                                            \o ToUpper(order[k][2])], ", ")
                /\ (order = <<>> /\ T > 0)
                        => orderBy \in {<<"ORDER BY time ASC">>, <<"time", " ", "ASC">>}
                /\ (order = <<>> /\ T = 0)
                        => /\ orderBy = <<>>
                           /\ {" ORDER BY ", "ORDER BY time ASC"} \cap Range(results[i].query) = {}

HasLimit(out) == "LIMIT " \in Range(out.query)
HasOffset(out) == " OFFSET " \in Range(out.query)

\* Whether the request provides a limit: a non-nil pointer for the analytics
\* handler, an integer other than the zero value for the generic builder.
LimitGiven(r) == IF IsAnalytics THEN r.limit # <<>> ELSE r.limit # 0

\* Whether the request provides an offset; the request of the generic builder
\* has no such field.
OffsetGiven(r) == IsAnalytics /\ r.offset # <<>>

\* C25 as claimed: a compiled query holds LIMIT exactly when the request
\* provides a limit, holds OFFSET only together with LIMIT, and holds neither
\* when the request provides an offset and no limit.
C25_LimitIffProvided ==
    \A i \in Compilations :
        Succeeded(i) =>
            /\ HasLimit(results[i]) <=> LimitGiven(req)
            /\ HasOffset(results[i]) => HasLimit(results[i])
            /\ (OffsetGiven(req) /\ ~LimitGiven(req))
                    => ~HasLimit(results[i]) /\ ~HasOffset(results[i])

\* C25 as amended: a compiled query of the analytics handler holds LIMIT
\* exactly when the request provides a limit, and OFFSET exactly when it
\* provides a limit and an offset; a compiled query of the generic builder
\* holds LIMIT exactly when the limit of the request is greater than zero and
\* never holds OFFSET; so no compiled query holds OFFSET without LIMIT, and
\* a request with an offset and no limit compiles without either.
C25_LimitOffset ==
    \A i \in Compilations :
        Succeeded(i) =>
            /\ HasLimit(results[i]) <=>
                    (IF IsAnalytics THEN req.limit # <<>> ELSE req.limit > 0)
            /\ HasOffset(results[i]) <=> (OffsetGiven(req) /\ LimitGiven(req))
            /\ HasOffset(results[i]) => HasLimit(results[i])
            /\ (OffsetGiven(req) /\ ~LimitGiven(req))
                    => ~HasLimit(results[i]) /\ ~HasOffset(results[i])
            /\ results[i].limit # <<>> =>
                    /\ HasPrefix(results[i].limit,
                                 <<"LIMIT ", Itoa(IF IsAnalytics THEN req.limit[1] ELSE req.limit)>>)
                    /\ SubSeq(results[i].query,
                              Len(results[i].query) - Len(results[i].limit) + 1,
                              Len(results[i].query)) = results[i].limit

\* C25 witness: the analytics handler compiled a request with offset 10 and
\* no limit into a query without either clause.
C25_Witness ==
    /\ IsAnalytics
    /\ Len(results) >= 1
    /\ Succeeded(1)
    /\ req.limit = <<>>
    /\ req.offset = <<10>>
    /\ results[1].limit = <<>>
    /\ ~HasLimit(results[1]) /\ ~HasOffset(results[1])

\* Whether a known dimension is of kind time: the type of its definition in
\* the schema of the generic builder; in the maps of the analytics handler,
\* which record no kind, the dimensions named time.* .
KindTime(d) ==
    IF IsAnalytics THEN HasPrefix(d, <<"time", ".">>)
    ELSE Lookup(GetSchema.Dimensions, d).type = "time"

\* C26: a request whose identifiers are all known and whose time dimension
\* clause names a dimension that is not of kind time (users.role, say) does
\* not compile, so no select list holds a time column made of such a
\* dimension.
C26_TimeKindRequired ==
    \A i \in Compilations :
        \A k \in 1..Len(TimeClauses(req)) :
            (/\ UnknownIdentifiers(req) = {}
             /\ ~KindTime(TimeClauses(req)[k].dimension))
            => ~Succeeded(i)

\* The table aliases that qualify a column in an expression of the registries
\* (the x of every x.column in its text).
Aliases(sql) ==
    CASE sql = "AVG(CASE WHEN qr.points_earned IS NOT NULL THEN (qr.points_earned / qq.points) * 100 END)"
            -> {"qr", "qq"}
      [] sql = "COUNT(DISTINCT qr.student_id) * 100.0 / COUNT(DISTINCT e.user_id)" -> {"qr", "e"}
      [] sql = "COUNT(qr.id)" -> {"qr"}
      [] sql \in {"SUM(s.duration_seconds) / 60.0", "AVG(s.duration_seconds) / 60.0",
                  "COUNT(s.id)", "DATE(s.start_time)", "EXTRACT(HOUR FROM s.start_time)",
                  "EXTRACT(DOW FROM s.start_time)", "s.application", "s.name"} -> {"s"}
      [] sql = "COUNT(e.id)" -> {"e"}
      [] sql \in {"COUNT(DISTINCT u.id)", "u.role"} -> {"u"}
      [] sql = "AVG(ca.average_engagement_score)" -> {"ca"}
      [] sql \in {"c.subject", "c.name", "c.grade_level"} -> {"c"}
      [] sql = "sch.name" -> {"sch"}
      [] sql = "q.status" -> {"q"}
      [] OTHER -> {}

\* The aliases the FROM/JOIN text of a compiled query introduces, each with
\* the table it stands for.
Bindings(out) ==
    {<<out.from.alias, out.from.table>>}
    \cup {<<out.joins[k].alias, out.joins[k].table>> : k \in 1..Len(out.joins)}

\* The tokens of the select list, of the predicate and of GROUP BY.
ClauseTokens(out) ==
    UNION ({Range(out.selects[k].expr) : k \in 1..Len(out.selects)}
           \cup {Range(out.conditions[k]) : k \in 1..Len(out.conditions)}
           \cup {Range(out.groups[k]) : k \in 1..Len(out.groups)})

\* The table that owns a measure or dimension: the one its definition names
\* in the schema of the generic builder, the one its identifier begins with in
\* the maps of the analytics handler.
OwnerOfDimension(d) == IF IsAnalytics THEN d[1] ELSE Lookup(GetSchema.Dimensions, d).table

\* C27: in a compiled query every alias that qualifies a column of the select
\* list, of the predicate or of GROUP BY is introduced by the FROM/JOIN text
\* of that query; and the aliases in the expression of a selected dimension
\* of the generic builder stand for the table that owns the dimension.
C27_AliasesBound ==
    \A i \in Compilations :
        Succeeded(i) =>
            /\ \A tok \in ClauseTokens(results[i]) :
                    \A a \in Aliases(tok) : \E b \in Bindings(results[i]) : b[1] = a
            /\ IsGeneric =>
                    \A k \in 1..Len(req.dimensions) :
                        KnownDimension(req.dimensions[k]) =>
                            \A a \in Aliases(DimensionSQL(req.dimensions[k])) :
                                <<a, OwnerOfDimension(req.dimensions[k])>> \in Bindings(results[i])

\* C28: whenever a requested measure or dimension of the generic builder
\* resolves in the schema, so that determineTables returns a table, the
\* primary table that determinePrimaryTable chooses, and that the compiled
\* query has in its FROM, is one of the tables determineTables returned.
C28_PrimaryIsRequired ==
    \A i \in Compilations :
        (IsGeneric /\ Succeeded(i)) =>
            LET tables == determineTables(req.measures, req.dimensions, GetSchema)
            IN  tables # <<>> =>
                    /\ determinePrimaryTable([keys |-> tables, start |-> 1]) \in Range(tables)
                    /\ results[i].from.table \in Range(tables)

\* The aliases of the select list of a compiled query.
SelectAliases(out) == {out.selects[k].alias : k \in 1..Len(out.selects)}

\* C29: the ORDER BY of a query the generic builder compiled from a request
\* whose order items name members of the registry is made of the items that
\* name a selected member and a direction asc or desc, each as the alias of
\* the member's select entry and ASC or DESC; the other items contribute
\* nothing, and with no such item the query has no ORDER BY.
C29_OrderColumnsSelected ==
    \A i \in Compilations :
        (/\ IsGeneric
         /\ Succeeded(i)
         /\ \A k \in 1..Len(req.order) :
                KnownMeasure(req.order[k][1]) \/ KnownDimension(req.order[k][1]))
        => LET Valid(item) == OrderItemValid(req, item)
               valid == SelectSeq(req.order, Valid)
           IN  /\ results[i].orderBy =
                    Join([k \in 1..Len(valid) |->
                            ReplaceAll(valid[k][1], ".", "_") \o <<" ">> \o ToUpper(valid[k][2])],
                         ", ")
               /\ \A k \in 1..Len(valid) :
                    ReplaceAll(valid[k][1], ".", "_") \in SelectAliases(results[i])
               /\ valid = <<>> => " ORDER BY " \notin Range(results[i].query)

----------------------------------------------------------------------------
(* The seed migrations *)

\* The place of a migration in the list of getAvailableMigrations.
MigrationIndex(id) ==
    CHOOSE k \in 1..Len(getAvailableMigrations) : getAvailableMigrations[k].ID = id

Executed(e) == e.did \in {"Execute ok", "Execute failed"}

\* Within an invocation the migrations are handled in the order of the list,
\* a migration is executed only once every earlier one is recorded, and the
\* rows of the table are in the order of the list.
SeedInOrder ==
    /\ \A a, b \in 1..Len(seed.log) :
            (a < b /\ seed.log[a].run = seed.log[b].run)
                => MigrationIndex(seed.log[a].id) <= MigrationIndex(seed.log[b].id)
    /\ \A b \in 1..Len(seed.log) :
            Executed(seed.log[b]) =>
                \A k \in 1..(MigrationIndex(seed.log[b].id) - 1) :
                    \E a \in 1..(b - 1) :
                        /\ seed.log[a].did = "recorded"
                        /\ seed.log[a].id = getAvailableMigrations[k].ID
    /\ \A a, b \in 1..Len(seed.rows) :
            a < b => MigrationIndex(seed.rows[a]) < MigrationIndex(seed.rows[b])

\* No migration's Execute has returned success more than once (so, all the
\* more, none has run to success and then run again).
SeedExecutedOnce ==
    \A k \in 1..Len(getAvailableMigrations) :
        Cardinality({a \in 1..Len(seed.log) :
                        /\ seed.log[a].id = getAvailableMigrations[k].ID
                        /\ seed.log[a].did = "Execute ok"}) <= 1

\* A row is created only right after the Execute of its migration returned
\* success, in the same invocation, and the table holds just those rows.
SeedRecordedAfterSuccess ==
    /\ \A a \in 1..Len(seed.log) :
            seed.log[a].did = "recorded" =>
                /\ a > 1
                /\ seed.log[a - 1] = [seed.log[a] EXCEPT !.did = "Execute ok"]
    /\ Range(seed.rows) = {seed.log[a].id : a \in {b \in 1..Len(seed.log) :
                                                        seed.log[b].did = "recorded"}}

\* Once a migration has failed (its Execute, or the creation of its row)
\* the invocation handles no later migration and returns an error.
SeedFailureStops ==
    \A a \in 1..Len(seed.log) :
        (\/ seed.log[a].did = "Execute failed"
         \/ /\ seed.log[a].did = "Execute ok"
            /\ ~(a < Len(seed.log) /\ seed.log[a + 1] = [seed.log[a] EXCEPT !.did = "recorded"]))
        => /\ \A b \in (a + 1)..Len(seed.log) : seed.log[b].run # seed.log[a].run
           /\ seed.returned[seed.log[a].run] # NoError

\* C30: across the invocations of RunPendingMigrations the migrations 001,
\* 002, 003 are executed in that order, the Execute of each migration runs
\* to success at most once, a migration is recorded only after its Execute
\* returned success, and a failure of a migration keeps every later
\* migration from running in that invocation.
C30_SeedMigrations ==
    /\ SeedInOrder
    /\ SeedExecutedOnce
    /\ SeedRecordedAfterSuccess
    /\ SeedFailureStops

====
